---------------------------- MODULE Spec2Model ----------------------------
(***************************************************************************)
(* A model of the four converters of stoic-texts-public-domain:            *)
(*   D  src/parsed/parser_discourses.py   (Epictetus, Discourses)          *)
(*   L  src/parsed/parser_letters.py      (Seneca, Moral Letters)          *)
(*   M  src/parsed/parser_meditations.py  (Marcus Aurelius, Meditations)   *)
(*   S  src/parsed/parser_shortness.py    (Seneca, Shortness of Life)      *)
(* Several functions carry the same name in more than one script; the      *)
(* model prefixes a definition with the letter of its script.              *)
(*                                                                         *)
(* A text (a Python str) is a sequence of characters, each character a     *)
(* one-character string; a line list is a sequence of texts.  Regular      *)
(* expressions are modelled by matchers over these sequences.              *)
(***************************************************************************)
EXTENDS Integers, Sequences, FiniteSets, TLC

VARIABLES
    fn,          \* pure-function harness: which function is exercised
    arg,         \* pure-function harness: the input drawn by Init
    res,         \* pure-function harness: results computed so far
    doc,         \* which script runs: "D", "L", "M" or "S"
    dry_run,     \* args.dry_run
    lines,       \* all_lines: the input file, split into lines
    pc,          \* position of main()
    idx,         \* loop index of the segmenter that is running
    ps,          \* the running segmenter's local variables
    raw,         \* the segmenters' output lists
    sections,    \* build_sections' result
    report,      \* what validate printed as warnings
    written,     \* whether out_path.write_text ran
    exit_status  \* process exit status, -1 while running

vars == <<fn, arg, res, doc, dry_run, lines, pc, idx, ps, raw, sections,
          report, written, exit_status>>

pureVars == <<fn, arg, res>>
runVars  == <<doc, dry_run, lines, pc, idx, ps, raw, sections, report,
              written, exit_status>>

-----------------------------------------------------------------------------
(* Bounds of the model *)

MaxRoman == 124

\* The number of lines an input holds after its seed.
MaxLines == 3

\* The number of lines a text to clean is made of.
MaxPieces == 4

\* The largest number of sections of a numbered input.
MaxNumbered == 6

-----------------------------------------------------------------------------
(* Python values *)

\* Python's None where the other values are integers.
None == -1

\* Python's None where the other values are texts.
NoneT == <<"<None>">>

Min(a, b) == IF a < b THEN a ELSE b
Max(a, b) == IF a > b THEN a ELSE b

\* s[i:j] of Python for 0 <= i, 0 <= j: clamped to the text.
Slice(s, i, j) == SubSeq(s, i + 1, Min(j, Len(s)))

\* s[i:] of Python.
From(s, i) == SubSeq(s, i + 1, Len(s))

\* The characters outside ASCII that the patterns name, each one atom.
UpArrow == "<U+2191>"
LeftQuote == "<U+2018>"
RightQuote == "<U+2019>"

Upper == {"A", "B", "C", "D", "E", "F", "G", "H", "I", "J", "K", "L", "M",
          "N", "O", "P", "Q", "R", "S", "T", "U", "V", "W", "X", "Y", "Z"}
Lower == {"a", "b", "c", "d", "e", "f", "g", "h", "i", "j", "k", "l", "m",
          "n", "o", "p", "q", "r", "s", "t", "u", "v", "w", "x", "y", "z"}
Digit == {"0", "1", "2", "3", "4", "5", "6", "7", "8", "9"}

\* \s of Python's re, and the characters str.strip() and str.split() remove.
IsSpace(c) == c \in {" ", "\t", "\n", "\r", "\f"}

\* [^\S\n]
IsHSpace(c) == IsSpace(c) /\ c # "\n"

-----------------------------------------------------------------------------
(* Roman numeral conversion *)

L_ROMAN_VALUES ==
    << <<<<"M">>, 1000>>, <<<<"C", "M">>, 900>>, <<<<"D">>, 500>>,
       <<<<"C", "D">>, 400>>, <<<<"C">>, 100>>, <<<<"X", "C">>, 90>>,
       <<<<"L">>, 50>>, <<<<"X", "L">>, 40>>, <<<<"X">>, 10>>,
       <<<<"I", "X">>, 9>>, <<<<"V">>, 5>>, <<<<"I", "V">>, 4>>,
       <<<<"I">>, 1>> >>

D_ROMAN_VALUES == L_ROMAN_VALUES

\* The loops of roman_to_int: for each (numeral, value) of the table, in
\* order, while s[i:i+len(numeral)] == numeral, add value and advance i.
RECURSIVE RomanToIntLoop(_, _, _, _, _)
RomanToIntLoop(table, s, i, k, result) ==
    IF k > Len(table) THEN result
    ELSE LET numeral == table[k][1]
             value   == table[k][2]
         IN  IF Slice(s, i, i + Len(numeral)) = numeral
             THEN RomanToIntLoop(table, s, i + Len(numeral), k, result + value)
             ELSE RomanToIntLoop(table, s, i, k + 1, result)

\* The loops of int_to_roman: for each (numeral, value), while n >= value,
\* append numeral and subtract value.
RECURSIVE IntToRomanLoop(_, _, _, _)
IntToRomanLoop(table, n, k, result) ==
    IF k > Len(table) THEN result
    ELSE LET numeral == table[k][1]
             value   == table[k][2]
         IN  IF n >= value
             THEN IntToRomanLoop(table, n - value, k, result \o numeral)
             ELSE IntToRomanLoop(table, n, k + 1, result)

\* A decoder that adds the value of each character and ignores the
\* subtractive pairs.
L_roman_to_int_additive(s) ==
    RomanToIntLoop(SelectSeq(L_ROMAN_VALUES, LAMBDA e : Len(e[1]) = 1), s, 0, 1, 0)

L_roman_to_int(s) == RomanToIntLoop(L_ROMAN_VALUES, s, 0, 1, 0)

\* An encoder whose loop tests n > value: it never writes the last unit.
L_int_to_roman_strict(n) ==
    IF n = 1 THEN <<>> ELSE IntToRomanLoop(L_ROMAN_VALUES, n - 1, 1, <<>>)

L_int_to_roman(n) == IntToRomanLoop(L_ROMAN_VALUES, n, 1, <<>>)

D_roman_to_int(s) == RomanToIntLoop(D_ROMAN_VALUES, s, 0, 1, 0)

\* An encoder that knows no subtractive pair: it writes 4 as IIII.
D_int_to_roman_nosub(n) ==
    IntToRomanLoop(SelectSeq(D_ROMAN_VALUES, LAMBDA e : Len(e[1]) = 1), n, 1, <<>>)

D_int_to_roman(n) == IntToRomanLoop(D_ROMAN_VALUES, n, 1, <<>>)

-----------------------------------------------------------------------------
(* Text primitives of Python *)

\* The number of consecutive characters of s from 0-based position i on
\* that satisfy P: a greedy character-class repetition.
RunLen(P(_), s, i) ==
    IF \A j \in (i + 1)..Len(s) : P(s[j]) THEN Max(Len(s) - i, 0)
    ELSE (CHOOSE j \in (i + 1)..Len(s) :
              ~P(s[j]) /\ \A k \in (i + 1)..(j - 1) : P(s[k])) - 1 - i

\* The number of consecutive characters at the end of s that satisfy P.
RunLenBack(P(_), s) ==
    IF \A j \in 1..Len(s) : P(s[j]) THEN Len(s)
    ELSE Len(s) - (CHOOSE j \in 1..Len(s) :
                       ~P(s[j]) /\ \A k \in (j + 1)..Len(s) : P(s[k]))

\* Whether s holds the literal lit at 0-based position i.
HasAt(s, i, lit) == Slice(s, i, i + Len(lit)) = lit

\* str.startswith
StartsWith(s, lit) == HasAt(s, 0, lit)

\* str.strip()
LStrip(s) == From(s, RunLen(IsSpace, s, 0))

RStrip(s) == SubSeq(s, 1, Len(s) - RunLenBack(IsSpace, s))

Strip(s) == RStrip(LStrip(s))

\* str.rstrip('.')
RStripDot(s) == SubSeq(s, 1, Len(s) - RunLenBack(LAMBDA c : c = ".", s))

\* The k-th smallest element of a finite set of integers.
Nth(S, k) == CHOOSE p \in S : Cardinality({q \in S : q < p}) = k - 1

\* The (1-based) positions of s where a maximal run of non-whitespace
\* characters starts.
TokenStarts(s) ==
    {i \in 1..Len(s) : ~IsSpace(s[i]) /\ (i = 1 \/ IsSpace(s[i - 1]))}

TokenAt(s, p) == SubSeq(s, p, p - 1 + RunLen(LAMBDA c : ~IsSpace(c), s, p - 1))

\* str.split(): the maximal runs of non-whitespace characters, in order.
Split(s) == [k \in 1..Cardinality(TokenStarts(s)) |-> TokenAt(s, Nth(TokenStarts(s), k))]

\* len(text): the characters counted for the words.
WordCount_chars(text) == Len(text)

\* len(text.split())
WordCount(text) == Len(Split(text))

\* The (1-based) position of the k-th occurrence of the character sep in s;
\* 0 for k = 0, and Len(s) + 1 after the last occurrence.
SepAt(s, sep, k) ==
    IF k = 0 THEN 0
    ELSE IF k > Cardinality({i \in 1..Len(s) : s[i] = sep}) THEN Len(s) + 1
    ELSE Nth({i \in 1..Len(s) : s[i] = sep}, k)

\* str.split(sep) for a one-character sep: always at least one piece.
SplitOn(s, sep) ==
    [k \in 1..(Cardinality({i \in 1..Len(s) : s[i] = sep}) + 1) |->
        SubSeq(s, SepAt(s, sep, k - 1) + 1, SepAt(s, sep, k) - 1)]

\* sep.join(parts)
RECURSIVE Join(_, _)
Join(sep, parts) ==
    IF parts = <<>> THEN <<>>
    ELSE IF Len(parts) = 1 THEN parts[1]
    ELSE parts[1] \o sep \o Join(sep, Tail(parts))

\* [f(x) for x in xs]
MapSeq(f(_), xs) == [k \in 1..Len(xs) |-> f(xs[k])]

\* The first 0-based position j >= i where a match of M starts, Len(s) when
\* there is none.  M(s, j) is the length of the match that starts at j, 0
\* when there is none.
NextMatch(M(_, _), s, i) ==
    IF \A j \in i..(Len(s) - 1) : M(s, j) = 0 THEN Len(s)
    ELSE CHOOSE j \in i..(Len(s) - 1) :
             M(s, j) > 0 /\ \A k \in i..(j - 1) : M(s, k) = 0

\* pattern.sub(repl, s) for a pattern that never matches the empty text:
\* the scan is leftmost, non-overlapping, one pass.  ReSubFrom continues the
\* scan at position i, the next match starting at j.
RECURSIVE ReSubFrom(_, _, _, _, _, _)
ReSubFrom(M(_, _), repl, s, i, acc, j) ==
    IF j >= Len(s) THEN acc \o From(s, i)
    ELSE ReSubFrom(M, repl, s, j + M(s, j), acc \o Slice(s, i, j) \o repl,
                   NextMatch(M, s, j + M(s, j)))

ReSub(M(_, _), repl, s, i, acc) == ReSubFrom(M, repl, s, i, acc, NextMatch(M, s, i))

\* str.replace(old, new)
ReplaceLit(s, old, new) ==
    ReSub(LAMBDA t, i : IF HasAt(t, i, old) THEN Len(old) ELSE 0, new, s, 0, <<>>)

\* r'\n{3,}'
MatchNewlines3(s, i) ==
    LET n == RunLen(LAMBDA c : c = "\n", s, i) IN IF n >= 3 THEN n ELSE 0

\* r'[^\S\n]+'
MatchHSpaces(s, i) == RunLen(IsHSpace, s, i)

\* r' {2,}'
MatchSpaces2(s, i) ==
    LET n == RunLen(LAMBDA c : c = " ", s, i) IN IF n >= 2 THEN n ELSE 0

-----------------------------------------------------------------------------
(* Text cleaning: Discourses and Meditations *)

\* [a-z0-9\-]
IsRefChar(c) == c \in Lower \cup Digit \cup {"-"}

IsDigit(c) == c \in Digit

\* The length of a match of r'\[\*[a-z0-9\-]+\]' at position i, 0 if none.
MatchStarRef(s, i) ==
    LET k == RunLen(IsRefChar, s, i + 2)
    IN  IF HasAt(s, i, <<"[", "*">>) /\ k >= 1 /\ HasAt(s, i + 2 + k, <<"]">>)
        THEN k + 3 ELSE 0

\* RE_FOOTNOTE_REF = r'\s*\[\*[a-z0-9\-]+\]'
D_RE_FOOTNOTE_REF(s, i) ==
    LET w == RunLen(IsSpace, s, i)
        n == MatchStarRef(s, i + w)
    IN  IF n > 0 THEN w + n ELSE 0

\* RE_INLINE_PAGE = r'\[p\.\s*\d+\]'
D_RE_INLINE_PAGE(s, i) ==
    LET w == RunLen(IsSpace, s, i + 3)
        d == RunLen(IsDigit, s, i + 3 + w)
    IN  IF HasAt(s, i, <<"[", "p", ".">>) /\ d >= 1 /\ HasAt(s, i + 3 + w + d, <<"]">>)
        THEN 3 + w + d + 1 ELSE 0

\* The steps clean_text shares between the two scripts: line endings,
\* blank-line runs, horizontal whitespace, per-line strip, overall strip.
NormalizeWhitespace(text) ==
    LET t1 == ReplaceLit(ReplaceLit(text, <<"\r", "\n">>, <<"\n">>), <<"\r">>, <<"\n">>)
        t2 == ReSub(MatchNewlines3, <<"\n", "\n">>, t1, 0, <<>>)
        t3 == ReSub(MatchHSpaces, <<" ">>, t2, 0, <<>>)
        t4 == Join(<<"\n">>, MapSeq(Strip, SplitOn(t3, "\n")))
    IN  Strip(t4)

D_clean_text(text) ==
    NormalizeWhitespace(
        ReSub(D_RE_INLINE_PAGE, <<>>, ReSub(D_RE_FOOTNOTE_REF, <<>>, text, 0, <<>>), 0, <<>>))

M_clean_text(text) == NormalizeWhitespace(text)

-----------------------------------------------------------------------------
(* Text cleaning: Letters and Shortness *)

\* RE_FOOTNOTE_MARKER = r'\[\d+\]' (the same in both scripts)
RE_FOOTNOTE_MARKER(s, i) ==
    LET d == RunLen(IsDigit, s, i + 1)
    IN  IF HasAt(s, i, <<"[">>) /\ d >= 1 /\ HasAt(s, i + 1 + d, <<"]">>)
        THEN d + 2 ELSE 0

\* RE_FOOTNOTE_LINE = r'^<U+2191>' (the same in both scripts), as pattern.match
RE_FOOTNOTE_LINE(s) == StartsWith(s, <<UpArrow>>)

\* The loop of clean_letter_text over the letter's lines; st is
\* [cleaned, in_footnotes].
RECURSIVE L_CleanLoop(_, _, _)
L_CleanLoop(ls, k, st) ==
    IF k > Len(ls) THEN st.cleaned
    ELSE LET stripped == Strip(ls[k])
             line_clean ==
                 Strip(ReSub(MatchSpaces2, <<" ">>,
                             ReSub(RE_FOOTNOTE_MARKER, <<>>, stripped, 0, <<>>), 0, <<>>))
         IN  IF st.cleaned = <<>> /\ stripped = <<>> THEN L_CleanLoop(ls, k + 1, st)
             ELSE IF RE_FOOTNOTE_LINE(stripped)
                  THEN L_CleanLoop(ls, k + 1, [st EXCEPT !.in_footnotes = TRUE])
             ELSE IF st.in_footnotes THEN L_CleanLoop(ls, k + 1, st)
             ELSE L_CleanLoop(ls, k + 1,
                              [st EXCEPT !.cleaned = Append(@, line_clean)])

L_clean_letter_text(ls, letter_num) ==
    LET cleaned == L_CleanLoop(ls, 1, [cleaned |-> <<>>, in_footnotes |-> FALSE])
        text    == Join(<<"\n">>, cleaned)
    IN  Strip(ReSub(MatchNewlines3, <<"\n", "\n">>, text, 0, <<>>))

\* RE_FOOTNOTES_HEADER = r'^Footnotes\s*$', as pattern.match
S_RE_FOOTNOTES_HEADER(s) ==
    /\ StartsWith(s, <<"F", "o", "o", "t", "n", "o", "t", "e", "s">>)
    /\ RunLen(IsSpace, s, 9) = Len(s) - 9

\* The first loop of clean_chapter_text: the stripped lines up to the first
\* Footnotes header or footnote line.
RECURSIVE S_TakeLoop(_, _, _)
S_TakeLoop(ls, k, acc) ==
    IF k > Len(ls) THEN acc
    ELSE LET stripped == Strip(ls[k])
         IN  IF S_RE_FOOTNOTES_HEADER(stripped) \/ RE_FOOTNOTE_LINE(stripped)
             THEN acc
             ELSE S_TakeLoop(ls, k + 1, Append(acc, stripped))

\* while all_lines and not all_lines[-1]: all_lines.pop()
RECURSIVE PopTrailingBlank(_)
PopTrailingBlank(ls) ==
    IF ls # <<>> /\ ls[Len(ls)] = <<>>
    THEN PopTrailingBlank(SubSeq(ls, 1, Len(ls) - 1)) ELSE ls

\* while all_lines and not all_lines[0]: all_lines.pop(0)
RECURSIVE PopLeadingBlank(_)
PopLeadingBlank(ls) ==
    IF ls # <<>> /\ ls[1] = <<>> THEN PopLeadingBlank(Tail(ls)) ELSE ls

\* The paragraph loop of clean_chapter_text; st is [paragraphs, current_para].
RECURSIVE S_ParaLoop(_, _, _)
S_ParaLoop(ls, k, st) ==
    IF k > Len(ls)
    THEN IF st.current_para # <<>>
         THEN Append(st.paragraphs, Join(<<" ">>, st.current_para))
         ELSE st.paragraphs
    ELSE LET line == ls[k]
             cleaned ==
                 Strip(ReSub(MatchSpaces2, <<" ">>,
                             ReSub(RE_FOOTNOTE_MARKER, <<>>, line, 0, <<>>), 0, <<>>))
         IN  IF line = <<>>
             THEN IF st.current_para # <<>>
                  THEN S_ParaLoop(ls, k + 1,
                           [paragraphs |-> Append(st.paragraphs,
                                                  Join(<<" ">>, st.current_para)),
                            current_para |-> <<>>])
                  ELSE S_ParaLoop(ls, k + 1, st)
             ELSE IF cleaned # <<>>
                  THEN S_ParaLoop(ls, k + 1,
                           [st EXCEPT !.current_para = Append(@, cleaned)])
                  ELSE S_ParaLoop(ls, k + 1, st)

S_clean_chapter_text(first_line_text, ls) ==
    LET first == IF first_line_text # <<>> THEN <<first_line_text>> ELSE <<>>
        all_lines == PopLeadingBlank(PopTrailingBlank(S_TakeLoop(ls, 1, first)))
    IN  Join(<<"\n", "\n">>,
             S_ParaLoop(all_lines, 1, [paragraphs |-> <<>>, current_para |-> <<>>]))

-----------------------------------------------------------------------------
(* Letters: patterns.  Each takes the stripped line, as pattern.match does  *)
(* in the script; a line holds no line break (str.splitlines).              *)

\* 'THE EPISTLES OF SENECA'
L_LIT_VOLUME_HEADER ==
    <<"T", "H", "E", " ", "E", "P", "I", "S", "T", "L", "E", "S", " ", "O",
      "F", " ", "S", "E", "N", "E", "C", "A">>

\* 'Volume '
L_LIT_VOLUME ==
    <<"V", "o", "l", "u", "m", "e", " ">>

\* 'INDEX OF PROPER NAMES'
L_LIT_INDEX_NAMES ==
    <<"I", "N", "D", "E", "X", " ", "O", "F", " ", "P", "R", "O", "P", "E",
      "R", " ", "N", "A", "M", "E", "S">>

\* 'SUBJECT INDEX'
L_LIT_SUBJECT_INDEX ==
    <<"S", "U", "B", "J", "E", "C", "T", " ", "I", "N", "D", "E", "X">>

\* 'APPENDIX'
L_LIT_APPENDIX ==
    <<"A", "P", "P", "E", "N", "D", "I", "X">>

\* 'Printed in Great Britain'
L_LIT_PRINTED ==
    <<"P", "r", "i", "n", "t", "e", "d", " ", "i", "n", " ", "G", "r", "e",
      "a", "t", " ", "B", "r", "i", "t", "a", "i", "n">>

\* 'About this digital edition'
L_LIT_DIGITAL ==
    <<"A", "b", "o", "u", "t", " ", "t", "h", "i", "s", " ", "d", "i", "g",
      "i", "t", "a", "l", " ", "e", "d", "i", "t", "i", "o", "n">>

\* 'CONTENTS OF VOLUME'
L_LIT_CONTENTS ==
    <<"C", "O", "N", "T", "E", "N", "T", "S", " ", "O", "F", " ", "V", "O",
      "L", "U", "M", "E">>

\* 'ON THE LESSON TO BE DRAWN FROM THE BURNING OF LYONS'
L_LIT_LYONS ==
    <<"O", "N", " ", "T", "H", "E", " ", "L", "E", "S", "S", "O", "N", " ",
      "T", "O", " ", "B", "E", " ", "D", "R", "A", "W", "N", " ", "F", "R",
      "O", "M", " ", "T", "H", "E", " ", "B", "U", "R", "N", "I", "N", "G",
      " ", "O", "F", " ", "L", "Y", "O", "N", "S">>

IsRomanIVXLC(c) == c \in {"I", "V", "X", "L", "C"}

IsRomanIVX(c) == c \in {"I", "V", "X"}

IsUpper(c) == c \in Upper

\* [A-Z\s,\'<U+2018><U+2019>\-\.\(\)]
L_IsTitleChar(c) ==
    IsUpper(c) \/ IsSpace(c) \/ c \in {",", "'", LeftQuote, RightQuote, "-", ".", "(", ")"}

\* The common head '^[IVXLC]+\.\s+' of the header, TOC and apparatus
\* patterns, a being the length of the numeral: the position after the head,
\* or 0 when the line does not start so.
L_NumeralHeadAt(s, a) ==
    IF a >= 1 /\ HasAt(s, a, <<".">>) /\ RunLen(IsSpace, s, a + 1) >= 1
    THEN a + 1 + RunLen(IsSpace, s, a + 1) ELSE 0

L_NumeralHead(s) == L_NumeralHeadAt(s, RunLen(IsRomanIVXLC, s, 0))

L_NoMatch == [ok |-> FALSE, roman |-> <<>>, title_raw |-> <<>>]

\* The end of RE_LETTER_HEADER: after the title characters s[p+1 .. p+c] and
\* the optional marker, which ends at e, only whitespace may follow.
L_HeaderEnd(s, p, c, e) ==
    IF c >= 1 /\ e + RunLen(IsSpace, s, e) = Len(s)
    THEN [ok |-> TRUE,
          roman |-> Slice(s, 0, RunLen(IsRomanIVXLC, s, 0)),
          title_raw |-> Slice(s, p, p + 1 + c)]
    ELSE L_NoMatch

L_HeaderTail(s, p, c) ==
    L_HeaderEnd(s, p, c, p + 1 + c + RE_FOOTNOTE_MARKER(s, p + 1 + c))

L_HeaderTitle(s, p) ==
    IF p > 0 /\ p < Len(s) /\ IsUpper(s[p + 1])
    THEN L_HeaderTail(s, p, RunLen(L_IsTitleChar, s, p + 1))
    ELSE L_NoMatch

\* RE_LETTER_HEADER =
\*   r'^([IVXLC]+)\.\s+([A-Z][A-Z\s,\'<U+2018><U+2019>\-\.\(\)]+?)(\[\d+\])?\s*$'
\* The match as [ok, roman, title_raw]: group 1 and group 2.  The title class
\* holds neither '[' nor a digit, so the lazy group 2 ends where the marker
\* starts, or runs to the end of the line (up to trailing whitespace, which
\* the caller strips).
L_RE_LETTER_HEADER(s) == L_HeaderTitle(s, L_NumeralHead(s))

L_Lyons91Tail(s, n, m) ==
    \/ n + m + RunLen(IsSpace, s, n + m) = Len(s)
    \/ n + RunLen(IsSpace, s, n) = Len(s)

\* The pattern of letter 91 left out of is_letter_header.
L_RE_LETTER_91_HEADER_never(s) == FALSE

\* RE_LETTER_91_HEADER =
\*   r'^ON THE LESSON TO BE DRAWN FROM THE BURNING OF LYONS(\[\d+\])?\s*$'
L_RE_LETTER_91_HEADER(s) ==
    /\ StartsWith(s, L_LIT_LYONS)
    /\ L_Lyons91Tail(s, 51, RE_FOOTNOTE_MARKER(s, 51))

L_SeparatorAt(s, w1, w2) ==
    /\ HasAt(s, 0, <<"*">>) /\ w1 >= 1
    /\ HasAt(s, 1 + w1, <<"*">>) /\ w2 >= 1
    /\ HasAt(s, 2 + w1 + w2, <<"*">>)
    /\ Len(s) = 3 + w1 + w2

\* RE_SEPARATOR = r'^\*\s+\*\s+\*$'
L_RE_SEPARATOR(s) ==
    L_SeparatorAt(s, RunLen(IsSpace, s, 1), RunLen(IsSpace, s, 2 + RunLen(IsSpace, s, 1)))

\* RE_VOLUME_HEADER = r'^THE EPISTLES OF SENECA$'
L_RE_VOLUME_HEADER(s) == s = L_LIT_VOLUME_HEADER

L_VolumeMarkerAt(s, a) ==
    StartsWith(s, L_LIT_VOLUME) /\ a >= 1 /\ HasAt(s, 7 + a, <<".">>)
    /\ Len(s) = 7 + a + 1

\* RE_VOLUME_MARKER = r'^Volume [IVX]+\.$'
L_RE_VOLUME_MARKER(s) == L_VolumeMarkerAt(s, RunLen(IsRomanIVX, s, 7))

L_TocTail(s, p, r) ==
    /\ p > 0 /\ p < Len(s) /\ IsUpper(s[p + 1])
    /\ \E k \in (p + 2)..(Len(r) - 1) :
          /\ IsSpace(r[k])
          /\ \A j \in (k + 1)..Len(r) : IsDigit(r[j])

\* RE_TOC_ENTRY = r'^[IVXLC]+\.\s+[A-Z].*\s+\d+\s*$'
\* After the capital letter the line must end, up to trailing whitespace, in
\* a whole run of digits that follows a whitespace character.
L_RE_TOC_ENTRY(s) == L_TocTail(s, L_NumeralHead(s), RStrip(s))

L_ApparatusAt(s, p) ==
    p > 0 /\ RunLen(IsDigit, s, p) >= 1 /\ HasAt(s, p + RunLen(IsDigit, s, p), <<".">>)

\* RE_APPARATUS_ENTRY = r'^[IVXLC]+\.\s+\d+\.'
L_RE_APPARATUS_ENTRY(s) == L_ApparatusAt(s, L_NumeralHead(s))

\* RE_CONTENTS_HEADER = r'^CONTENTS OF VOLUME'
L_RE_CONTENTS_HEADER(s) == StartsWith(s, L_LIT_CONTENTS)

\* RE_INDEX_HEADER = r'^(INDEX OF PROPER NAMES|SUBJECT INDEX)'
L_RE_INDEX_HEADER(s) ==
    StartsWith(s, L_LIT_INDEX_NAMES) \/ StartsWith(s, L_LIT_SUBJECT_INDEX)

\* RE_APPENDIX_HEADER = r'^APPENDIX'
L_RE_APPENDIX_HEADER(s) == StartsWith(s, L_LIT_APPENDIX)

\* A scan that does not know the printer line.
L_RE_PRINTER_never(s) == FALSE

\* RE_PRINTER = r'^Printed in Great Britain'
L_RE_PRINTER(s) == StartsWith(s, L_LIT_PRINTED)

\* RE_DIGITAL_EDITION = r'^About this digital edition$'
L_RE_DIGITAL_EDITION(s) == s = L_LIT_DIGITAL

-----------------------------------------------------------------------------
(* Numbers as text *)

DigitChar == <<"0", "1", "2", "3", "4", "5", "6", "7", "8", "9">>

\* str(n), f"{n}" for n >= 0
RECURSIVE IntToDec(_)
IntToDec(n) ==
    IF n < 10 THEN <<DigitChar[n + 1]>>
    ELSE Append(IntToDec(n \div 10), DigitChar[(n % 10) + 1])

\* f"{n:0Wd}" for n >= 0
RECURSIVE ZeroPad(_, _)
ZeroPad(s, width) == IF Len(s) >= width THEN s ELSE ZeroPad(<<"0">> \o s, width)

DigitValue(c) == CHOOSE v \in 0..9 : DigitChar[v + 1] = c

\* int(s) for a non-empty text of ASCII digits
RECURSIVE DecToInt(_)
DecToInt(s) ==
    IF s = <<>> THEN 0
    ELSE 10 * DecToInt(SubSeq(s, 1, Len(s) - 1)) + DigitValue(s[Len(s)])

-----------------------------------------------------------------------------
(* Letters: regions and segmentation *)

\* The inner scan of find_letter_regions: the first j >= start whose line is
\* an end-of-region marker, or len(lines).
RECURSIVE L_ScanRegionEnd(_, _, _)
L_ScanRegionEnd(ls, start, j) ==
    IF j >= Len(ls) THEN j
    ELSE LET s == Strip(ls[j + 1])
         IN  IF \/ L_RE_VOLUME_MARKER(s)
                \/ L_RE_INDEX_HEADER(s)
                \/ L_RE_APPENDIX_HEADER(s)
                \/ L_RE_PRINTER(s)
                \/ L_RE_DIGITAL_EDITION(s)
                \/ L_RE_CONTENTS_HEADER(s)
                \/ (j > start /\ L_RE_VOLUME_HEADER(s))
             THEN j
             ELSE L_ScanRegionEnd(ls, start, j + 1)

\* The outer loop of find_letter_regions.
RECURSIVE L_FindRegionsLoop(_, _, _)
L_FindRegionsLoop(ls, i, regions) ==
    IF i >= Len(ls) THEN regions
    ELSE IF L_RE_VOLUME_HEADER(Strip(ls[i + 1]))
         THEN LET start == i + 1
                  j     == L_ScanRegionEnd(ls, start, start)
              IN  L_FindRegionsLoop(ls, j, Append(regions, <<start, j>>))
         ELSE L_FindRegionsLoop(ls, i + 1, regions)

L_find_letter_regions(ls) == L_FindRegionsLoop(ls, 0, <<>>)

L_NoHeader == [ok |-> FALSE, num |-> None, title |-> NoneT]

L_HeaderOf(m, num) ==
    IF m.ok /\ 1 <= num /\ num <= 124
    THEN [ok |-> TRUE, num |-> num, title |-> RStripDot(Strip(m.title_raw))]
    ELSE L_NoHeader

L_HeaderOfMatch(m) == L_HeaderOf(m, L_roman_to_int(m.roman))

\* is_letter_header that takes a table-of-contents entry for the header of
\* the letter of its numeral.
L_IsLetterHeaderStripped_toc(stripped) ==
    IF stripped = <<>> THEN L_NoHeader
    ELSE IF L_RE_TOC_ENTRY(stripped)
         THEN [ok |-> TRUE,
               num |-> L_roman_to_int(Slice(stripped, 0,
                                            RunLen(IsRomanIVXLC, stripped, 0))),
               title |-> stripped]
    ELSE IF L_RE_APPARATUS_ENTRY(stripped) THEN L_NoHeader
    ELSE IF L_RE_LETTER_91_HEADER(stripped)
         THEN [ok |-> TRUE, num |-> 91,
               title |-> Strip(ReSub(RE_FOOTNOTE_MARKER, <<>>, stripped, 0, <<>>))]
    ELSE L_HeaderOfMatch(L_RE_LETTER_HEADER(stripped))

L_IsLetterHeaderStripped(stripped) ==
    IF stripped = <<>> THEN L_NoHeader
    ELSE IF L_RE_TOC_ENTRY(stripped) THEN L_NoHeader
    ELSE IF L_RE_APPARATUS_ENTRY(stripped) THEN L_NoHeader
    ELSE IF L_RE_LETTER_91_HEADER(stripped)
         THEN [ok |-> TRUE, num |-> 91,
               title |-> Strip(ReSub(RE_FOOTNOTE_MARKER, <<>>, stripped, 0, <<>>))]
    ELSE L_HeaderOfMatch(L_RE_LETTER_HEADER(stripped))

\* is_letter_header: [ok, num, title]; ok is FALSE where the script returns
\* None.
L_is_letter_header(line) == L_IsLetterHeaderStripped(Strip(line))

\* The locals of parse_letters at the start of a region.
L_RegionLocals(regions, r) ==
    [regions |-> regions, r |-> r,
     current_letter_num |-> None, current_title |-> NoneT, current_lines |-> <<>>]

L_RawLetter(p) ==
    [number |-> p.current_letter_num, title |-> p.current_title,
     lines |-> p.current_lines]

L_ParseLineWith(p, raw_letters, line, stripped, header) ==
    IF header.ok
    THEN [ps |-> [p EXCEPT !.current_letter_num = header.num,
                           !.current_title = header.title,
                           !.current_lines = <<>>],
          raw_letters |-> IF p.current_letter_num # None
                          THEN Append(raw_letters, L_RawLetter(p))
                          ELSE raw_letters]
    ELSE IF L_RE_SEPARATOR(stripped)
    THEN [ps |-> p, raw_letters |-> raw_letters]
    ELSE IF p.current_letter_num # None
    THEN [ps |-> [p EXCEPT !.current_lines = Append(@, line)],
          raw_letters |-> raw_letters]
    ELSE [ps |-> p, raw_letters |-> raw_letters]

\* One iteration of the inner loop of parse_letters, on line = lines[idx]:
\* the new locals and the new raw_letters.
L_ParseLine(p, raw_letters, line) ==
    L_ParseLineWith(p, raw_letters, line, Strip(line), L_is_letter_header(Strip(line)))

\* 'letters_'
L_LIT_ID ==
    <<"l", "e", "t", "t", "e", "r", "s", "_">>

\* 'Letter '
L_LIT_LETTER ==
    <<"L", "e", "t", "t", "e", "r", " ">>

\* The section build_sections makes of one raw letter whose text is not
\* empty.
L_Section(letter, text) ==
    [id |-> L_LIT_ID \o ZeroPad(IntToDec(letter.number), 3),
     book |-> None, book_title |-> NoneT,
     chapter |-> None, chapter_title |-> NoneT,
     letter_number |-> letter.number, letter_title |-> letter.title,
     text |-> text,
     word_count |-> WordCount(text),
     source_reference |->
         L_LIT_LETTER \o L_int_to_roman(letter.number) \o <<" ", "(">>
         \o IntToDec(letter.number) \o <<")">>]

RECURSIVE L_BuildLoop(_, _, _)
L_BuildLoop(raw_letters, k, acc) ==
    IF k > Len(raw_letters) THEN acc
    ELSE LET letter == raw_letters[k]
             text == L_clean_letter_text(letter.lines, letter.number)
         IN  IF text = <<>> THEN L_BuildLoop(raw_letters, k + 1, acc)
             ELSE L_BuildLoop(raw_letters, k + 1, Append(acc, L_Section(letter, text)))

L_build_sections(raw_letters) == L_BuildLoop(raw_letters, 1, <<>>)

\* The set of the elements of a sequence.
Range(xs) == {xs[k] : k \in 1..Len(xs)}

\* What validate prints as warnings and findings; nothing before it runs.
\*   missing, duplicate: the keys named by the "Missing"/"Duplicate" warnings
\*   short: the ids of the sections listed as having fewer than 20 words
\*   unparsed: the 1-based numbers of the lines listed as unparsed markers
\*   warnings: the other warnings printed
EmptyReport ==
    [missing |-> {}, duplicate |-> {}, short |-> <<>>, unparsed |-> <<>>,
     warnings |-> {}]

\* short = [s for s in sections if s['word_count'] < 20], by id
ShortSections(secs) ==
    LET short == SelectSeq(secs, LAMBDA s : s.word_count < 20)
    IN  [k \in 1..Len(short) |-> short[k].id]

\* validate of Letters: [raised, report].  The list `unparsed` is filled by
\* no statement and printed by none.  min(word_counts) raises ValueError
\* when there is no section.
L_validate(secs, original_lines) ==
    LET found_nums == {secs[k].letter_number : k \in 1..Len(secs)}
        count(n) == Cardinality({k \in 1..Len(secs) : secs[k].letter_number = n})
    IN  [raised |-> secs = <<>>,
         report |-> [EmptyReport EXCEPT
                       !.missing = (1..124) \ found_nums,
                       !.duplicate = {n \in found_nums : count(n) > 1},
                       !.short = ShortSections(secs)]]

-----------------------------------------------------------------------------
(* Discourses: patterns.  Each takes the stripped line.                     *)

\* 'BOOK '
D_LIT_BOOK ==
    <<"B", "O", "O", "K", " ">>

\* 'BOOK I'
D_LIT_BOOK_I ==
    <<"B", "O", "O", "K", " ", "I">>

\* 'CHAPTER '
D_LIT_CHAPTER ==
    <<"C", "H", "A", "P", "T", "E", "R", " ">>

\* 'The Discourses of Epictetus, tr. by P.E Matheson'
D_LIT_SACRED ==
    <<"T", "h", "e", " ", "D", "i", "s", "c", "o", "u", "r", "s", "e", "s",
      " ", "o", "f", " ", "E", "p", "i", "c", "t", "e", "t", "u", "s", ",",
      " ", "t", "r", ".", " ", "b", "y", " ", "P", ".", "E", " ", "M", "a",
      "t", "h", "e", "s", "o", "n">>

\* 'The Discourses of Epictetus, tr. by P.E. Matheson'
D_LIT_SACRED_DOT ==
    <<"T", "h", "e", " ", "D", "i", "s", "c", "o", "u", "r", "s", "e", "s",
      " ", "o", "f", " ", "E", "p", "i", "c", "t", "e", "t", "u", "s", ",",
      " ", "t", "r", ".", " ", "b", "y", " ", "P", ".", "E", ".", " ", "M",
      "a", "t", "h", "e", "s", "o", "n">>

\* 'Book '
D_LIT_BOOK_LC ==
    <<"B", "o", "o", "k", " ">>

\* 'Notes'
D_LIT_NOTES ==
    <<"N", "o", "t", "e", "s">>

\* 'The Discourses.'
D_LIT_THE_DISCOURSES ==
    <<"T", "h", "e", " ", "D", "i", "s", "c", "o", "u", "r", "s", "e", "s",
      ".">>

\* 'PREFACE'
D_LIT_PREFACE ==
    <<"P", "R", "E", "F", "A", "C", "E">>

\* 'ARRIANUS TO LUCIUS GELLIUS GREETING'
D_LIT_PREFACE_SUBTITLE ==
    <<"A", "R", "R", "I", "A", "N", "U", "S", " ", "T", "O", " ", "L", "U",
      "C", "I", "U", "S", " ", "G", "E", "L", "L", "I", "U", "S", " ", "G",
      "R", "E", "E", "T", "I", "N", "G">>

\* 'FRAGMENTS'
D_LIT_FRAGMENTS ==
    <<"F", "R", "A", "G", "M", "E", "N", "T", "S">>

\* 'FROM '
D_LIT_FROM ==
    <<"F", "R", "O", "M", " ">>

\* 'RUFUS:'
D_LIT_RUFUS ==
    <<"R", "U", "F", "U", "S", ":">>

\* 'THE MANUAL [ENCHIRIDION] OF EPICTETUS'
D_LIT_MANUAL ==
    <<"T", "H", "E", " ", "M", "A", "N", "U", "A", "L", " ", "[", "E", "N",
      "C", "H", "I", "R", "I", "D", "I", "O", "N", "]", " ", "O", "F", " ",
      "E", "P", "I", "C", "T", "E", "T", "U", "S">>

\* 'SUBJECT INDEX TO THE DISCOURSES'
D_LIT_INDEX ==
    <<"S", "U", "B", "J", "E", "C", "T", " ", "I", "N", "D", "E", "X", " ",
      "T", "O", " ", "T", "H", "E", " ", "D", "I", "S", "C", "O", "U", "R",
      "S", "E", "S">>

\* A pattern '^<prefix>(<class>+)$': group 1, or the empty text when the
\* line does not match.
NumeralAfter(P(_), prefix, s) ==
    IF /\ StartsWith(s, prefix)
       /\ Len(s) > Len(prefix)
       /\ RunLen(P, s, Len(prefix)) = Len(s) - Len(prefix)
    THEN From(s, Len(prefix)) ELSE <<>>

\* RE_BOOK_HEADER = r'^BOOK ([IVX]+)$': group 1, or the empty text
D_RE_BOOK_HEADER(s) == NumeralAfter(IsRomanIVX, D_LIT_BOOK, s)

\* RE_CHAPTER_HEADER = r'^CHAPTER ([IVXLC]+)$': group 1, or the empty text
D_RE_CHAPTER_HEADER(s) == NumeralAfter(IsRomanIVXLC, D_LIT_CHAPTER, s)

\* RE_PAGE_MARKER = r'^\[p\.\s*\d+\]$'
D_RE_PAGE_MARKER(s) == s # <<>> /\ D_RE_INLINE_PAGE(s, 0) = Len(s)

\* RE_SACRED_TEXTS_HEADER =
\*   r'^The Discourses of Epictetus, tr\. by P\.E\.? Matheson'
D_RE_SACRED_TEXTS_HEADER(s) ==
    StartsWith(s, D_LIT_SACRED) \/ StartsWith(s, D_LIT_SACRED_DOT)

\* [a-z0-9]
IsLowerDigit(c) == c \in Lower \cup Digit

D_NoteLineAt(s, k) ==
    k >= 1 /\ HasAt(s, 1 + k, <<"-">>) /\ RunLen(IsDigit, s, 2 + k) >= 1

\* RE_NOTE_LINE = r'^\^[a-z0-9]+-\d+'
D_RE_NOTE_LINE(s) ==
    HasAt(s, 0, <<"^">>) /\ D_NoteLineAt(s, RunLen(IsLowerDigit, s, 1))

D_NotesHeaderRest(s, p) ==
    From(s, p + RunLen(IsSpace, s, p)) \in {D_LIT_NOTES, D_LIT_NOTES \o <<".">>}

D_NotesHeaderAt(s, a) ==
    /\ a >= 1
    /\ D_NotesHeaderRest(s, 5 + a + (IF HasAt(s, 5 + a, <<".">>) THEN 1 ELSE 0))

\* RE_NOTES_HEADER = r'^Book [IVX]+\.?\s*Notes\.?$'
D_RE_NOTES_HEADER(s) ==
    StartsWith(s, D_LIT_BOOK_LC) /\ D_NotesHeaderAt(s, RunLen(IsRomanIVX, s, 5))

\* RE_DISCOURSES_SEPARATOR = r'^The Discourses\.$'
D_RE_DISCOURSES_SEPARATOR(s) == s = D_LIT_THE_DISCOURSES

\* RE_PREFACE = r'^PREFACE$'
D_RE_PREFACE(s) == s = D_LIT_PREFACE

\* RE_PREFACE_SUBTITLE = r'^ARRIANUS TO LUCIUS GELLIUS GREETING$'
D_RE_PREFACE_SUBTITLE(s) == s = D_LIT_PREFACE_SUBTITLE

D_RefTailAt(s, q, n) ==
    q = Len(s) \/ (n > 0 /\ q + n + RunLen(IsSpace, s, q + n) = Len(s))

D_RefTailFrom(s, q) == D_RefTailAt(s, q, MatchStarRef(s, q))

\* The common tail r'\s*(\[\*[a-z0-9\-]+\])?\s*$' of the fragment and manual
\* patterns, from 0-based position p on.
D_RefTail(s, p) == D_RefTailFrom(s, p + RunLen(IsSpace, s, p))

\* RE_FRAGMENTS_HEADER = r'^FRAGMENTS\s*(\[\*[a-z0-9\-]+\])?\s*$'
D_RE_FRAGMENTS_HEADER(s) == StartsWith(s, D_LIT_FRAGMENTS) /\ D_RefTail(s, 9)

D_FragmentNumberEnd(s, d) ==
    IF d = 0 THEN 0
    ELSE IF d < Len(s) /\ s[d + 1] \in Lower THEN d + 1
    ELSE d

D_NumberGroup(s, e) == IF e >= 1 /\ D_RefTail(s, e) THEN Slice(s, 0, e) ELSE <<>>

\* RE_FRAGMENT_NUMBER = r'^(\d+[a-z]?)\s*(?:\[\*[a-z0-9\-]+\])?\s*$':
\* group 1, or the empty text
D_RE_FRAGMENT_NUMBER(s) ==
    D_NumberGroup(s, D_FragmentNumberEnd(s, RunLen(IsDigit, s, 0)))

\* RE_FRAGMENT_1_ROMAN = r'^I$'
D_RE_FRAGMENT_1_ROMAN(s) == s = <<"I">>

\* RE_FRAGMENT_TITLE = r'^(FROM |RUFUS:)'
D_RE_FRAGMENT_TITLE(s) == StartsWith(s, D_LIT_FROM) \/ StartsWith(s, D_LIT_RUFUS)

\* RE_MANUAL_HEADER =
\*   r'^THE MANUAL \[ENCHIRIDION\] OF EPICTETUS\s*(\[\*[a-z0-9\-]+\])?\s*$'
D_RE_MANUAL_HEADER(s) ==
    StartsWith(s, D_LIT_MANUAL) /\ D_RefTail(s, Len(D_LIT_MANUAL))

\* RE_MANUAL_SECTION_NUMBER = r'^(\d+)\s*(?:\[\*[a-z0-9\-]+\])?\s*$':
\* group 1, or the empty text
D_RE_MANUAL_SECTION_NUMBER(s) == D_NumberGroup(s, RunLen(IsDigit, s, 0))

\* RE_INDEX_HEADER = r'^SUBJECT INDEX TO THE DISCOURSES'
D_RE_INDEX_HEADER(s) == StartsWith(s, D_LIT_INDEX)

\* str.isupper(): a cased character, and no lowercase one
IsUpperText(s) ==
    /\ \E k \in 1..Len(s) : s[k] \in Upper
    /\ \A k \in 1..Len(s) : s[k] \notin Lower

\* lit in s
Contains(s, lit) == \E i \in 0..(Len(s) - Len(lit)) : HasAt(s, i, lit)

D_NoiseStripped(stripped) ==
    D_RE_PAGE_MARKER(stripped) \/ D_RE_SACRED_TEXTS_HEADER(stripped)

\* is_noise_line without the test of the running header.
D_is_noise_line_page(line) == D_RE_PAGE_MARKER(Strip(line))

D_is_noise_line(line) == D_NoiseStripped(Strip(line))

-----------------------------------------------------------------------------
(* Discourses: segmentation *)

\* Phase 1 of parse_discourses, the anchors seen at line i: the first
\* PREFACE line and the first line 'BOOK I'.
D_ScanAnchors(st, i, stripped) ==
    [preface_start |-> IF D_RE_PREFACE(stripped) /\ st.preface_start = None
                       THEN i ELSE st.preface_start,
     book1_start   |-> IF stripped = D_LIT_BOOK_I /\ st.book1_start = None
                       THEN i ELSE st.book1_start,
     content_end   |-> st.content_end]

\* Whether the scan stops at line i: a notes header that holds 'IV', or the
\* separator followed, within the next four lines, by such a header.
D_ScanStops(ls, i, stripped) ==
    \/ D_RE_NOTES_HEADER(stripped) /\ Contains(stripped, <<"I", "V">>)
    \/ /\ D_RE_DISCOURSES_SEPARATOR(stripped)
       /\ \E j \in (i + 1)..(Min(i + 5, Len(ls)) - 1) :
             /\ D_RE_NOTES_HEADER(Strip(ls[j + 1]))
             /\ Contains(ls[j + 1], <<"I", "V">>)

\* The while loop of phase 1.
RECURSIVE D_ScanLoop(_, _, _)
D_ScanLoop(ls, i, st) ==
    IF i >= Len(ls) THEN st
    ELSE IF D_ScanStops(ls, i, Strip(ls[i + 1]))
         THEN [D_ScanAnchors(st, i, Strip(ls[i + 1])) EXCEPT !.content_end = i]
         ELSE D_ScanLoop(ls, i + 1, D_ScanAnchors(st, i, Strip(ls[i + 1])))

D_FindBounds(ls) ==
    D_ScanLoop(ls, 0, [preface_start |-> None, book1_start |-> None,
                       content_end |-> None])

D_PrefaceKeep(line) ==
    /\ ~D_RE_PREFACE(Strip(line))
    /\ ~D_RE_PREFACE_SUBTITLE(Strip(line))
    /\ ~D_is_noise_line(line)

\* Phase 2 of parse_discourses: preface_text.
D_PrefaceText(ls, preface_start, book1_start) ==
    D_clean_text(Join(<<"\n">>,
        MapSeq(Strip, SelectSeq(SubSeq(ls, preface_start + 1, book1_start),
                                D_PrefaceKeep))))

\* The locals of phase 3 at its start.
D_ChapterLocals(book1_start, content_end) ==
    [book1_start |-> book1_start, content_end |-> content_end,
     current_book |-> None, current_chapter_num |-> None,
     current_chapter_title |-> NoneT, current_chapter_lines |-> <<>>,
     awaiting_title |-> FALSE, in_notes |-> FALSE]

D_RawChapter(p) ==
    [book_num |-> p.current_book, chapter_num |-> p.current_chapter_num,
     chapter_title |-> p.current_chapter_title, lines |-> p.current_chapter_lines]

\* A chapter whose number is the number of the last chapter of the list
\* takes its place.
D_CloseChapter_reopen(p, chapters) ==
    IF p.current_chapter_num # None /\ p.current_book # None
    THEN IF chapters # <<>>
            /\ chapters[Len(chapters)].chapter_num = p.current_chapter_num
         THEN [chapters EXCEPT ![Len(chapters)] = D_RawChapter(p)]
         ELSE Append(chapters, D_RawChapter(p))
    ELSE chapters

\* 'Save previous chapter if any'
D_CloseChapter(p, chapters) ==
    IF p.current_chapter_num # None /\ p.current_book # None
    THEN Append(chapters, D_RawChapter(p)) ELSE chapters

\* A loop that has lost the test of in_notes.
D_InNotes_never(p) == FALSE

\* 'if in_notes: continue'
D_InNotes(p) == p.in_notes

\* The loop of phase 3 without the test 'if stripped' of the title: a blank
\* line after a CHAPTER header becomes the title.
D_ParseLineWith_blanktitle(p, chapters, line, stripped, bm, cm) ==
    IF D_is_noise_line(line) THEN [ps |-> p, chapters |-> chapters]
    ELSE IF \/ D_RE_NOTES_HEADER(stripped)
            \/ D_RE_DISCOURSES_SEPARATOR(stripped)
            \/ D_RE_NOTE_LINE(stripped)
    THEN [ps |-> [p EXCEPT !.in_notes = TRUE], chapters |-> chapters]
    ELSE IF bm # <<>>
    THEN [ps |-> [p EXCEPT !.in_notes = FALSE,
                           !.current_book = D_roman_to_int(bm),
                           !.current_chapter_num = None,
                           !.current_chapter_title = NoneT,
                           !.current_chapter_lines = <<>>,
                           !.awaiting_title = FALSE],
          chapters |-> D_CloseChapter(p, chapters)]
    ELSE IF D_InNotes(p) THEN [ps |-> p, chapters |-> chapters]
    ELSE IF cm # <<>>
    THEN [ps |-> [p EXCEPT !.current_chapter_num = D_roman_to_int(cm),
                           !.current_chapter_title = NoneT,
                           !.current_chapter_lines = <<>>,
                           !.awaiting_title = TRUE],
          chapters |-> D_CloseChapter(p, chapters)]
    ELSE IF p.awaiting_title
    THEN [ps |-> [p EXCEPT !.current_chapter_title = stripped,
                           !.awaiting_title = FALSE],
          chapters |-> chapters]
    ELSE IF p.current_chapter_num # None
    THEN [ps |-> [p EXCEPT !.current_chapter_lines = Append(@, stripped)],
          chapters |-> chapters]
    ELSE [ps |-> p, chapters |-> chapters]

\* The loop of phase 3 with a BOOK header that leaves in_notes as it is.
D_ParseLineWith_booknotes(p, chapters, line, stripped, bm, cm) ==
    IF D_is_noise_line(line) THEN [ps |-> p, chapters |-> chapters]
    ELSE IF \/ D_RE_NOTES_HEADER(stripped)
            \/ D_RE_DISCOURSES_SEPARATOR(stripped)
            \/ D_RE_NOTE_LINE(stripped)
    THEN [ps |-> [p EXCEPT !.in_notes = TRUE], chapters |-> chapters]
    ELSE IF bm # <<>>
    THEN [ps |-> [p EXCEPT !.current_book = D_roman_to_int(bm),
                           !.current_chapter_num = None,
                           !.current_chapter_title = NoneT,
                           !.current_chapter_lines = <<>>,
                           !.awaiting_title = FALSE],
          chapters |-> D_CloseChapter(p, chapters)]
    ELSE IF D_InNotes(p) THEN [ps |-> p, chapters |-> chapters]
    ELSE IF cm # <<>>
    THEN [ps |-> [p EXCEPT !.current_chapter_num = D_roman_to_int(cm),
                           !.current_chapter_title = NoneT,
                           !.current_chapter_lines = <<>>,
                           !.awaiting_title = TRUE],
          chapters |-> D_CloseChapter(p, chapters)]
    ELSE IF p.awaiting_title
    THEN [ps |-> IF stripped # <<>>
                 THEN [p EXCEPT !.current_chapter_title = stripped,
                                !.awaiting_title = FALSE]
                 ELSE p,
          chapters |-> chapters]
    ELSE IF p.current_chapter_num # None
    THEN [ps |-> [p EXCEPT !.current_chapter_lines = Append(@, stripped)],
          chapters |-> chapters]
    ELSE [ps |-> p, chapters |-> chapters]

\* A chapter loop that keeps the number of the first BOOK header.
D_ParseLineWith_firstbook(p, chapters, line, stripped, bm, cm) ==
    IF D_is_noise_line(line) THEN [ps |-> p, chapters |-> chapters]
    ELSE IF \/ D_RE_NOTES_HEADER(stripped)
            \/ D_RE_DISCOURSES_SEPARATOR(stripped)
            \/ D_RE_NOTE_LINE(stripped)
    THEN [ps |-> [p EXCEPT !.in_notes = TRUE], chapters |-> chapters]
    ELSE IF bm # <<>>
    THEN [ps |-> [p EXCEPT !.in_notes = FALSE,
                           !.current_book = IF p.current_book = None
                                            THEN D_roman_to_int(bm) ELSE @,
                           !.current_chapter_num = None,
                           !.current_chapter_title = NoneT,
                           !.current_chapter_lines = <<>>,
                           !.awaiting_title = FALSE],
          chapters |-> D_CloseChapter(p, chapters)]
    ELSE IF D_InNotes(p) THEN [ps |-> p, chapters |-> chapters]
    ELSE IF cm # <<>>
    THEN [ps |-> [p EXCEPT !.current_chapter_num = D_roman_to_int(cm),
                           !.current_chapter_title = NoneT,
                           !.current_chapter_lines = <<>>,
                           !.awaiting_title = TRUE],
          chapters |-> D_CloseChapter(p, chapters)]
    ELSE IF p.awaiting_title
    THEN [ps |-> IF stripped # <<>>
                 THEN [p EXCEPT !.current_chapter_title = stripped,
                                !.awaiting_title = FALSE]
                 ELSE p,
          chapters |-> chapters]
    ELSE IF p.current_chapter_num # None
    THEN [ps |-> [p EXCEPT !.current_chapter_lines = Append(@, stripped)],
          chapters |-> chapters]
    ELSE [ps |-> p, chapters |-> chapters]

D_ParseLineWith(p, chapters, line, stripped, bm, cm) ==
    IF D_is_noise_line(line) THEN [ps |-> p, chapters |-> chapters]
    ELSE IF \/ D_RE_NOTES_HEADER(stripped)
            \/ D_RE_DISCOURSES_SEPARATOR(stripped)
            \/ D_RE_NOTE_LINE(stripped)
    THEN [ps |-> [p EXCEPT !.in_notes = TRUE], chapters |-> chapters]
    ELSE IF bm # <<>>
    THEN [ps |-> [p EXCEPT !.in_notes = FALSE,
                           !.current_book = D_roman_to_int(bm),
                           !.current_chapter_num = None,
                           !.current_chapter_title = NoneT,
                           !.current_chapter_lines = <<>>,
                           !.awaiting_title = FALSE],
          chapters |-> D_CloseChapter(p, chapters)]
    ELSE IF D_InNotes(p) THEN [ps |-> p, chapters |-> chapters]
    ELSE IF cm # <<>>
    THEN [ps |-> [p EXCEPT !.current_chapter_num = D_roman_to_int(cm),
                           !.current_chapter_title = NoneT,
                           !.current_chapter_lines = <<>>,
                           !.awaiting_title = TRUE],
          chapters |-> D_CloseChapter(p, chapters)]
    ELSE IF p.awaiting_title
    THEN [ps |-> IF stripped # <<>>
                 THEN [p EXCEPT !.current_chapter_title = stripped,
                                !.awaiting_title = FALSE]
                 ELSE p,
          chapters |-> chapters]
    ELSE IF p.current_chapter_num # None
    THEN [ps |-> [p EXCEPT !.current_chapter_lines = Append(@, stripped)],
          chapters |-> chapters]
    ELSE [ps |-> p, chapters |-> chapters]

\* One iteration of the loop of phase 3, on line = lines[idx]: the new
\* locals and the new chapters.
D_ParseLine(p, chapters, line) ==
    D_ParseLineWith(p, chapters, line, Strip(line),
                    D_RE_BOOK_HEADER(Strip(line)), D_RE_CHAPTER_HEADER(Strip(line)))

\* '^f-'
D_LIT_NOTE_F ==
    <<"^", "f", "-">>

\* '^m-'
D_LIT_NOTE_M ==
    <<"^", "m", "-">>

\* The scans of parse_fragments (part = "fragments": notes start with '^f-',
\* the manual header ends the part) and of parse_manual (part = "manual":
\* notes start with '^m-', the index header ends the part).
D_PartHeader(part, stripped) ==
    IF part = "fragments" THEN D_RE_FRAGMENTS_HEADER(stripped)
    ELSE D_RE_MANUAL_HEADER(stripped)

D_PartStops(part, stripped) ==
    IF part = "fragments"
    THEN \/ D_RE_NOTE_LINE(stripped) /\ StartsWith(stripped, D_LIT_NOTE_F)
         \/ D_RE_MANUAL_HEADER(stripped)
    ELSE \/ D_RE_NOTE_LINE(stripped) /\ StartsWith(stripped, D_LIT_NOTE_M)
         \/ D_RE_INDEX_HEADER(stripped)

\* The start of the part after line i has been looked at.
D_PartStart(part, start, i, stripped) ==
    IF D_PartHeader(part, stripped) THEN i + 1 ELSE start

\* [start, end] as the scan leaves them.
RECURSIVE D_PartScan(_, _, _, _)
D_PartScan(part, ls, i, start) ==
    IF i >= Len(ls) THEN [start |-> start, end |-> None]
    ELSE IF /\ D_PartStart(part, start, i, Strip(ls[i + 1])) # None
            /\ D_PartStops(part, Strip(ls[i + 1]))
         THEN [start |-> D_PartStart(part, start, i, Strip(ls[i + 1])), end |-> i]
         ELSE D_PartScan(part, ls, i + 1, D_PartStart(part, start, i, Strip(ls[i + 1])))

D_RawFragment(f) ==
    [number |-> f.current_num, title |-> f.current_title, lines |-> f.current_lines]

D_FragContent(f, stripped) ==
    IF f.current_num # NoneT THEN [f EXCEPT !.current_lines = Append(@, stripped)]
    ELSE f

\* parse_fragments where a line 'I' opens fragment 1 whatever is open.
D_FragLine_roman(f, line, stripped, fm) ==
    IF D_is_noise_line(line) THEN f
    ELSE IF fm # <<>> \/ D_RE_FRAGMENT_1_ROMAN(stripped)
    THEN [fragments |-> IF f.current_num # NoneT
                        THEN Append(f.fragments, D_RawFragment(f))
                        ELSE f.fragments,
          current_num |-> IF fm # <<>> THEN fm ELSE <<"1">>,
          current_title |-> NoneT, current_lines |-> <<>>,
          awaiting_title |-> TRUE]
    ELSE IF /\ f.awaiting_title /\ stripped # <<>>
            /\ (D_RE_FRAGMENT_TITLE(stripped) \/ IsUpperText(stripped))
    THEN [f EXCEPT !.current_title = stripped, !.awaiting_title = FALSE]
    ELSE D_FragContent([f EXCEPT !.awaiting_title = @ /\ stripped = <<>>], stripped)

\* One iteration of the loop of parse_fragments; fm is group 1 of
\* RE_FRAGMENT_NUMBER, empty when the line does not match.
D_FragLine(f, line, stripped, fm) ==
    IF D_is_noise_line(line) THEN f
    ELSE IF fm # <<>> \/ (f.current_num = NoneT /\ D_RE_FRAGMENT_1_ROMAN(stripped))
    THEN [fragments |-> IF f.current_num # NoneT
                        THEN Append(f.fragments, D_RawFragment(f))
                        ELSE f.fragments,
          current_num |-> IF fm # <<>> THEN fm ELSE <<"1">>,
          current_title |-> NoneT, current_lines |-> <<>>,
          awaiting_title |-> TRUE]
    ELSE IF /\ f.awaiting_title /\ stripped # <<>>
            /\ (D_RE_FRAGMENT_TITLE(stripped) \/ IsUpperText(stripped))
    THEN [f EXCEPT !.current_title = stripped, !.awaiting_title = FALSE]
    ELSE D_FragContent([f EXCEPT !.awaiting_title = @ /\ stripped = <<>>], stripped)

RECURSIVE D_FragLoop(_, _, _, _)
D_FragLoop(ls, idx0, frag_end, f) ==
    IF idx0 >= frag_end
    THEN IF f.current_num # NoneT THEN Append(f.fragments, D_RawFragment(f))
         ELSE f.fragments
    ELSE D_FragLoop(ls, idx0 + 1, frag_end,
                    D_FragLine(f, ls[idx0 + 1], Strip(ls[idx0 + 1]),
                               D_RE_FRAGMENT_NUMBER(Strip(ls[idx0 + 1]))))

D_FragmentsIn(ls, b) ==
    IF b.start = None THEN <<>>
    ELSE D_FragLoop(ls, b.start, IF b.end = None THEN Len(ls) ELSE b.end,
                    [fragments |-> <<>>, current_num |-> NoneT,
                     current_title |-> NoneT, current_lines |-> <<>>,
                     awaiting_title |-> FALSE])

D_parse_fragments(ls) == D_FragmentsIn(ls, D_PartScan("fragments", ls, 0, None))

\* Only the first number is accepted.
D_ManualAccepts_first(current_num, num) == current_num = None

\* An acceptance test that also takes the current number again.
D_ManualAccepts_again(current_num, num) == current_num = None \/ num >= current_num

\* A manual number is accepted when it is the first or greater than the
\* current one.
D_ManualAccepts(current_num, num) == current_num = None \/ num > current_num

D_RawManual(m) == [number |-> m.current_num, lines |-> m.current_lines]

D_ManualContent(m, stripped) ==
    IF m.current_num # None THEN [m EXCEPT !.current_lines = Append(@, stripped)]
    ELSE m

\* parse_manual without the sanity check '1 <= num <= 53'.
D_ManualLine_norange(m, line, stripped, num) ==
    IF D_is_noise_line(line) THEN m
    ELSE IF num # None /\ D_ManualAccepts(m.current_num, num)
    THEN [sections |-> IF m.current_num # None
                       THEN Append(m.sections, D_RawManual(m)) ELSE m.sections,
          current_num |-> num, current_lines |-> <<>>]
    ELSE D_ManualContent(m, stripped)

\* One iteration of the loop of parse_manual; num is int(group 1) of
\* RE_MANUAL_SECTION_NUMBER, None when the line does not match.
D_ManualLine(m, line, stripped, num) ==
    IF D_is_noise_line(line) THEN m
    ELSE IF num # None /\ 1 <= num /\ num <= 53 /\ D_ManualAccepts(m.current_num, num)
    THEN [sections |-> IF m.current_num # None
                       THEN Append(m.sections, D_RawManual(m)) ELSE m.sections,
          current_num |-> num, current_lines |-> <<>>]
    ELSE D_ManualContent(m, stripped)

\* int(nm.group(1)) if nm, else None
D_ManualNumber(nm) == IF nm # <<>> THEN DecToInt(nm) ELSE None

RECURSIVE D_ManualLoop(_, _, _, _)
D_ManualLoop(ls, idx0, manual_end, m) ==
    IF idx0 >= manual_end
    THEN IF m.current_num # None THEN Append(m.sections, D_RawManual(m))
         ELSE m.sections
    ELSE D_ManualLoop(ls, idx0 + 1, manual_end,
                      D_ManualLine(m, ls[idx0 + 1], Strip(ls[idx0 + 1]),
                          D_ManualNumber(D_RE_MANUAL_SECTION_NUMBER(Strip(ls[idx0 + 1])))))

D_ManualIn(ls, b) ==
    IF b.start = None THEN <<>>
    ELSE D_ManualLoop(ls, b.start, IF b.end = None THEN Len(ls) ELSE b.end,
                      [sections |-> <<>>, current_num |-> None,
                       current_lines |-> <<>>])

D_parse_manual(ls) == D_ManualIn(ls, D_PartScan("manual", ls, 0, None))

-----------------------------------------------------------------------------
(* Discourses: sections and validation *)

\* 'discourses_preface'
D_LIT_ID_PREFACE ==
    <<"d", "i", "s", "c", "o", "u", "r", "s", "e", "s", "_", "p", "r", "e",
      "f", "a", "c", "e">>

\* 'Preface'
D_LIT_PREFACE_TITLE ==
    <<"P", "r", "e", "f", "a", "c", "e">>

\* 'Arrianus to Lucius Gellius Greeting'
D_LIT_PREFACE_CHAPTER ==
    <<"A", "r", "r", "i", "a", "n", "u", "s", " ", "t", "o", " ", "L", "u",
      "c", "i", "u", "s", " ", "G", "e", "l", "l", "i", "u", "s", " ", "G",
      "r", "e", "e", "t", "i", "n", "g">>

\* 'discourses_b'
D_LIT_ID_BOOK ==
    <<"d", "i", "s", "c", "o", "u", "r", "s", "e", "s", "_", "b">>

\* 'discourses_frag'
D_LIT_ID_FRAG ==
    <<"d", "i", "s", "c", "o", "u", "r", "s", "e", "s", "_", "f", "r", "a",
      "g">>

\* 'enchiridion'
D_LIT_ID_MANUAL ==
    <<"e", "n", "c", "h", "i", "r", "i", "d", "i", "o", "n">>

\* 'Fragments'
D_LIT_FRAGMENTS_TITLE ==
    <<"F", "r", "a", "g", "m", "e", "n", "t", "s">>

\* 'Fragment '
D_LIT_FRAGMENT ==
    <<"F", "r", "a", "g", "m", "e", "n", "t", " ">>

\* 'The Manual (Enchiridion)'
D_LIT_MANUAL_TITLE ==
    <<"T", "h", "e", " ", "M", "a", "n", "u", "a", "l", " ", "(", "E", "n",
      "c", "h", "i", "r", "i", "d", "i", "o", "n", ")">>

\* 'Enchiridion, Section '
D_LIT_MANUAL_REF ==
    <<"E", "n", "c", "h", "i", "r", "i", "d", "i", "o", "n", ",", " ", "S",
      "e", "c", "t", "i", "o", "n", " ">>

\* ', Chapter '
D_LIT_CHAPTER_REF ==
    <<",", " ", "C", "h", "a", "p", "t", "e", "r", " ">>

\* BOOK_TITLES.get(bk)
D_BOOK_TITLES(bk) ==
    IF bk \in 1..4 THEN D_LIT_BOOK_LC \o D_int_to_roman(bk) ELSE NoneT

D_PrefaceSection(preface_text) ==
    [id |-> D_LIT_ID_PREFACE,
     book |-> None, book_title |-> D_LIT_PREFACE_TITLE,
     chapter |-> None, chapter_title |-> D_LIT_PREFACE_CHAPTER,
     letter_number |-> None,
     text |-> preface_text,
     word_count |-> WordCount(preface_text),
     source_reference |-> D_LIT_PREFACE_TITLE]

D_ChapterSection(ch, text) ==
    [id |-> D_LIT_ID_BOOK \o IntToDec(ch.book_num) \o <<"_", "c">>
            \o IntToDec(ch.chapter_num),
     book |-> ch.book_num, book_title |-> D_BOOK_TITLES(ch.book_num),
     chapter |-> ch.chapter_num, chapter_title |-> ch.chapter_title,
     letter_number |-> None,
     text |-> text,
     word_count |-> WordCount(text),
     source_reference |->
         D_LIT_BOOK_LC \o D_int_to_roman(ch.book_num) \o D_LIT_CHAPTER_REF
         \o D_int_to_roman(ch.chapter_num)]

D_FragmentSection(frag, text) ==
    [id |-> D_LIT_ID_FRAG \o <<"_">> \o frag.number,
     book |-> None, book_title |-> D_LIT_FRAGMENTS_TITLE,
     chapter |-> None, chapter_title |-> frag.title,
     letter_number |-> None,
     text |-> text,
     word_count |-> WordCount(text),
     source_reference |-> D_LIT_FRAGMENT \o frag.number]

D_ManualSection(sec, text) ==
    [id |-> D_LIT_ID_MANUAL \o <<"_", "s">> \o IntToDec(sec.number),
     book |-> None, book_title |-> D_LIT_MANUAL_TITLE,
     chapter |-> sec.number, chapter_title |-> NoneT,
     letter_number |-> None,
     text |-> text,
     word_count |-> WordCount(text),
     source_reference |-> D_LIT_MANUAL_REF \o IntToDec(sec.number)]

\* clean_text('\n'.join(x['lines']))
D_TextOf(ls) == D_clean_text(Join(<<"\n">>, ls))

\* A loop of build_sections over the raw items of one part; items with an
\* empty text are skipped.
D_PartSection(part, item, text) ==
    IF part = "chapters" THEN D_ChapterSection(item, text)
    ELSE IF part = "fragments" THEN D_FragmentSection(item, text)
    ELSE D_ManualSection(item, text)

D_BuildItem(part, item, text, acc) ==
    IF text = <<>> THEN acc ELSE Append(acc, D_PartSection(part, item, text))

RECURSIVE D_BuildLoop(_, _, _, _)
D_BuildLoop(part, items, k, acc) ==
    IF k > Len(items) THEN acc
    ELSE D_BuildLoop(part, items, k + 1,
                     D_BuildItem(part, items[k], D_TextOf(items[k].lines), acc))

D_build_sections(preface_text, chapters, fragments, manual_sections) ==
    D_BuildLoop("manual", manual_sections, 1,
        D_BuildLoop("fragments", fragments, 1,
            D_BuildLoop("chapters", chapters, 1,
                IF preface_text # <<>> THEN <<D_PrefaceSection(preface_text)>>
                ELSE <<>>)))

\* The (1-based) numbers of the lines that validate lists as unparsed
\* chapter markers: CHAPTER headers whose number is the chapter of no
\* section whose id starts with 'discourses_b'.
D_UnparsedAt(secs, cm) ==
    /\ cm # <<>>
    /\ ~\E k \in 1..Len(secs) :
          /\ secs[k].chapter = D_roman_to_int(cm)
          /\ StartsWith(secs[k].id, D_LIT_ID_BOOK)

RECURSIVE D_UnparsedLoop(_, _, _, _)
D_UnparsedLoop(secs, original_lines, i, acc) ==
    IF i >= Len(original_lines) THEN acc
    ELSE D_UnparsedLoop(secs, original_lines, i + 1,
             IF D_UnparsedAt(secs, D_RE_CHAPTER_HEADER(Strip(original_lines[i + 1])))
             THEN Append(acc, i + 1) ELSE acc)

\* The number of chapters validate expects.
D_expected_total_chs == 95

\* validate of Discourses: [raised, report].  It derives no duplicate keys
\* and no missing ones; min(wcs) raises ValueError when there is no section.
D_validate(secs, original_lines) ==
    [raised |-> secs = <<>>,
     report |-> [EmptyReport EXCEPT
         !.short = ShortSections(secs),
         !.unparsed = D_UnparsedLoop(secs, original_lines, 0, <<>>),
         !.warnings =
             IF Len(SelectSeq(secs, LAMBDA s : StartsWith(s.id, D_LIT_ID_BOOK)))
                # D_expected_total_chs
             THEN {"chapter_count"} ELSE {}]]

-----------------------------------------------------------------------------
(* Shortness of Life: segmentation, sections and validation *)

S_NoMatch == [ok |-> FALSE, num |-> None, rest |-> NoneT]

\* A header pattern that wants white space after the period.
S_ChapterHeaderAt_space(s, d) ==
    IF d >= 1 /\ HasAt(s, d, <<".">>) /\ RunLen(IsSpace, s, d + 1) >= 1
    THEN [ok |-> TRUE, num |-> DecToInt(Slice(s, 0, d)),
          rest |-> From(s, d + 1 + RunLen(IsSpace, s, d + 1))]
    ELSE S_NoMatch

S_ChapterHeaderAt(s, d) ==
    IF d >= 1 /\ HasAt(s, d, <<".">>)
    THEN [ok |-> TRUE, num |-> DecToInt(Slice(s, 0, d)),
          rest |-> From(s, d + 1 + RunLen(IsSpace, s, d + 1))]
    ELSE S_NoMatch

\* RE_CHAPTER_HEADER = r'^(\d+)\.\s*(.*)': [ok, num, rest] with num the
\* value int(group 1) and rest group 2.
S_RE_CHAPTER_HEADER(s) == S_ChapterHeaderAt(s, RunLen(IsDigit, s, 0))

\* The loop of find_content_start: the index of the first line that is a
\* header of chapter 1, None when the function ends the process.
RECURSIVE S_FindLoop(_, _)
S_FindLoop(ls, i) ==
    IF i >= Len(ls) THEN None
    ELSE IF S_RE_CHAPTER_HEADER(Strip(ls[i + 1])).num = 1 THEN i
    ELSE S_FindLoop(ls, i + 1)

S_find_content_start(ls) == S_FindLoop(ls, 0)

\* The locals of parse_chapters at its start.
S_ChapterLocals ==
    [current_num |-> None, current_first_line_text |-> NoneT,
     current_lines |-> <<>>, in_footnotes |-> FALSE]

S_RawChapter(p) ==
    [number |-> p.current_num, first_line_text |-> p.current_first_line_text,
     lines |-> p.current_lines]

\* A header that repeats the number of the open chapter goes on with that
\* chapter.
S_OpenChapter_merge(p, raw_chapters, m) ==
    [ps |-> [current_num |-> m.num, current_first_line_text |-> m.rest,
             current_lines |-> IF m.num = p.current_num THEN p.current_lines
                               ELSE <<>>,
             in_footnotes |-> FALSE],
     raw_chapters |-> IF p.current_num # None /\ m.num # p.current_num
                      THEN Append(raw_chapters, S_RawChapter(p))
                      ELSE raw_chapters]

\* A header line whose number is in 1..20: save the previous chapter and
\* open the new one, outside the footnotes.
S_OpenChapter(p, raw_chapters, m) ==
    [ps |-> [current_num |-> m.num, current_first_line_text |-> m.rest,
             current_lines |-> <<>>, in_footnotes |-> FALSE],
     raw_chapters |-> IF p.current_num # None
                      THEN Append(raw_chapters, S_RawChapter(p))
                      ELSE raw_chapters]

S_ParseLineWith(p, raw_chapters, line, stripped, m) ==
    IF S_RE_FOOTNOTES_HEADER(stripped)
    THEN [ps |-> [p EXCEPT !.in_footnotes = TRUE], raw_chapters |-> raw_chapters]
    ELSE IF p.in_footnotes
    THEN IF m.ok /\ 1 <= m.num /\ m.num <= 20
         THEN S_OpenChapter(p, raw_chapters, m)
         ELSE [ps |-> p, raw_chapters |-> raw_chapters]
    ELSE IF m.ok /\ 1 <= m.num /\ m.num <= 20
    THEN S_OpenChapter(p, raw_chapters, m)
    ELSE IF p.current_num # None
    THEN [ps |-> [p EXCEPT !.current_lines = Append(@, line)],
          raw_chapters |-> raw_chapters]
    ELSE [ps |-> p, raw_chapters |-> raw_chapters]

\* One iteration of the loop of parse_chapters, on line = lines[i]: the new
\* locals and the new raw_chapters.
S_ParseLine(p, raw_chapters, line) ==
    S_ParseLineWith(p, raw_chapters, line, Strip(line),
                    S_RE_CHAPTER_HEADER(Strip(line)))

\* 'shortness_ch'
S_LIT_ID ==
    <<"s", "h", "o", "r", "t", "n", "e", "s", "s", "_", "c", "h">>

\* 'Chapter '
S_LIT_CHAPTER ==
    <<"C", "h", "a", "p", "t", "e", "r", " ">>

S_Section(chapter, text) ==
    [id |-> S_LIT_ID \o ZeroPad(IntToDec(chapter.number), 2),
     book |-> None, book_title |-> NoneT,
     chapter |-> chapter.number, chapter_title |-> NoneT,
     letter_number |-> None,
     text |-> text,
     word_count |-> WordCount(text),
     source_reference |-> S_LIT_CHAPTER \o IntToDec(chapter.number)]

S_BuildItem(chapter, text, acc) ==
    IF text = <<>> THEN acc ELSE Append(acc, S_Section(chapter, text))

RECURSIVE S_BuildLoop(_, _, _)
S_BuildLoop(raw_chapters, k, acc) ==
    IF k > Len(raw_chapters) THEN acc
    ELSE S_BuildLoop(raw_chapters, k + 1,
             S_BuildItem(raw_chapters[k],
                 S_clean_chapter_text(raw_chapters[k].first_line_text,
                                      raw_chapters[k].lines),
                 acc))

S_build_sections(raw_chapters) == S_BuildLoop(raw_chapters, 1, <<>>)

\* RE_FOOTNOTE_MARKER.findall(text) is not empty
HasMarker(text) == \E i \in 0..(Len(text) - 1) : RE_FOOTNOTE_MARKER(text, i) > 0

\* The warnings of validate about the texts: leftover markers and arrows.
S_TextWarnings(secs) ==
    (IF \E k \in 1..Len(secs) : HasMarker(secs[k].text) THEN {"markers"} ELSE {})
    \cup (IF \E k \in 1..Len(secs) : Contains(secs[k].text, <<UpArrow>>)
          THEN {"arrow"} ELSE {})

\* The keys that occur more than once in a sequence of keys.
Duplicates(keys) ==
    {keys[k] : k \in {k \in 1..Len(keys) : \E j \in 1..Len(keys) : j # k /\ keys[j] = keys[k]}}

\* validate of Shortness: [raised, report].  min(word_counts) raises
\* ValueError when there is no section.
S_validate(secs, original_lines) ==
    [raised |-> secs = <<>>,
     report |-> [EmptyReport EXCEPT
         !.missing = (1..20) \ {secs[k].chapter : k \in 1..Len(secs)},
         !.duplicate = Duplicates([k \in 1..Len(secs) |-> secs[k].chapter]),
         !.short = ShortSections(secs),
         !.warnings = S_TextWarnings(secs)]]

-----------------------------------------------------------------------------
(* Meditations: segmentation, sections and validation *)

\* 'BOOK'
M_LIT_BOOK ==
    <<"B", "O", "O", "K">>

\* 'BOOK '
M_LIT_BOOK_SP ==
    <<"B", "O", "O", "K", " ">>

\* 'Book '
M_LIT_BOOK_LC ==
    <<"B", "o", "o", "k", " ">>

\* 'BOOK ONE'
M_LIT_BOOK_ONE ==
    <<"B", "O", "O", "K", " ", "O", "N", "E">>

\* 'THE END'
M_LIT_THE_END ==
    <<"T", "H", "E", " ", "E", "N", "D">>

\* 'Among the Quadi at the Granua.'
M_LIT_COLOPHON_1 ==
    <<"A", "m", "o", "n", "g", " ", "t", "h", "e", " ", "Q", "u", "a", "d",
      "i", " ", "a", "t", " ", "t", "h", "e", " ", "G", "r", "a", "n", "u",
      "a", ".">>

\* 'This in Carnuntum.'
M_LIT_COLOPHON_2 ==
    <<"T", "h", "i", "s", " ", "i", "n", " ", "C", "a", "r", "n", "u", "n",
      "t", "u", "m", ".">>

\* The keys of WORD_TO_NUM, in the order of their values 1..12.
M_WORDS ==
    << <<"O", "N", "E">>, <<"T", "W", "O">>, <<"T", "H", "R", "E", "E">>,
       <<"F", "O", "U", "R">>, <<"F", "I", "V", "E">>, <<"S", "I", "X">>,
       <<"S", "E", "V", "E", "N">>, <<"E", "I", "G", "H", "T">>,
       <<"N", "I", "N", "E">>, <<"T", "E", "N">>,
       <<"E", "L", "E", "V", "E", "N">>, <<"T", "W", "E", "L", "V", "E">> >>

\* The words of the values of BOOK_WORD_TO_TITLE, in the order of their
\* keys 1..12.
M_TITLE_WORDS ==
    << <<"O", "n", "e">>, <<"T", "w", "o">>, <<"T", "h", "r", "e", "e">>,
       <<"F", "o", "u", "r">>, <<"F", "i", "v", "e">>, <<"S", "i", "x">>,
       <<"S", "e", "v", "e", "n">>, <<"E", "i", "g", "h", "t">>,
       <<"N", "i", "n", "e">>, <<"T", "e", "n">>,
       <<"E", "l", "e", "v", "e", "n">>, <<"T", "w", "e", "l", "v", "e">> >>

M_BookHeaderAt(s, w) ==
    IF w >= 1 /\ From(s, 4 + w) \in Range(M_WORDS) THEN From(s, 4 + w) ELSE <<>>

\* RE_BOOK_HEADER =
\*   r'^BOOK\s+(ONE|TWO|THREE|FOUR|FIVE|SIX|SEVEN|EIGHT|NINE|TEN|ELEVEN|TWELVE)$':
\* group 1, or the empty text
M_RE_BOOK_HEADER(s) ==
    IF StartsWith(s, M_LIT_BOOK) THEN M_BookHeaderAt(s, RunLen(IsSpace, s, 4))
    ELSE <<>>

M_WORD_TO_NUM(word) == CHOOSE k \in 1..12 : M_WORDS[k] = word

\* BOOK_WORD_TO_TITLE.get(book_num)
M_BOOK_WORD_TO_TITLE(book_num) ==
    IF book_num \in 1..12 THEN M_LIT_BOOK_LC \o M_TITLE_WORDS[book_num]
    ELSE NoneT

\* RE_SEPARATOR = r'^-{10,}$'
M_RE_SEPARATOR(s) == Len(s) >= 10 /\ \A k \in 1..Len(s) : s[k] = "-"

\* RE_THE_END = r'^THE END$'
M_RE_THE_END(s) == s = M_LIT_THE_END

\* The first loop of strip_header_footer: the index of the first line
\* 'BOOK ONE', or None.
RECURSIVE M_FindStart(_, _)
M_FindStart(ls, i) ==
    IF i >= Len(ls) THEN None
    ELSE IF M_RE_BOOK_HEADER(Strip(ls[i + 1])) # <<>> /\ Strip(ls[i + 1]) = M_LIT_BOOK_ONE
         THEN i
    ELSE M_FindStart(ls, i + 1)

\* The second loop: the index of the last line 'THE END', or None.
RECURSIVE M_FindEnd(_, _)
M_FindEnd(ls, i) ==
    IF i < 0 THEN None
    ELSE IF M_RE_THE_END(Strip(ls[i + 1])) THEN i
    ELSE M_FindEnd(ls, i - 1)

\* strip_header_footer: [exits, content]; exits where the script calls
\* sys.exit(1).
M_StripWith(ls, start_idx, end_idx) ==
    IF start_idx = None \/ end_idx = None THEN [exits |-> TRUE, content |-> <<>>]
    ELSE [exits |-> FALSE, content |-> SubSeq(ls, start_idx + 1, end_idx)]

M_strip_header_footer(ls) ==
    M_StripWith(ls, M_FindStart(ls, 0), M_FindEnd(ls, Len(ls) - 1))

\* The locals of split_into_books at its start.
M_BookLocals(content) ==
    [content |-> content, current_book_num |-> None, current_lines |-> <<>>]

M_RawBook(p) == <<p.current_book_num, p.current_lines>>

M_SplitLineWith(p, books, line, stripped, m) ==
    IF m # <<>>
    THEN [ps |-> [p EXCEPT !.current_book_num = M_WORD_TO_NUM(m),
                           !.current_lines = <<>>],
          books |-> IF p.current_book_num # None
                    THEN Append(books, M_RawBook(p)) ELSE books]
    ELSE IF M_RE_SEPARATOR(stripped) THEN [ps |-> p, books |-> books]
    ELSE [ps |-> [p EXCEPT !.current_lines = Append(@, line)], books |-> books]

\* One iteration of the loop of split_into_books: the new locals and the
\* new books.
M_SplitLine(p, books, line) ==
    M_SplitLineWith(p, books, line, Strip(line), M_RE_BOOK_HEADER(Strip(line)))

\* The first loop of split_book_into_sections; st is
\* [sections, current_paragraph_lines].
M_ParaStep(st, stripped) ==
    IF stripped = <<>>
    THEN IF st.current_paragraph_lines # <<>>
         THEN [sections |-> Append(st.sections,
                                   Join(<<"\n">>, st.current_paragraph_lines)),
               current_paragraph_lines |-> <<>>]
         ELSE st
    ELSE [st EXCEPT !.current_paragraph_lines = Append(@, stripped)]

RECURSIVE M_ParaLoop(_, _, _)
M_ParaLoop(ls, k, st) ==
    IF k > Len(ls)
    THEN IF st.current_paragraph_lines # <<>>
         THEN Append(st.sections, Join(<<"\n">>, st.current_paragraph_lines))
         ELSE st.sections
    ELSE M_ParaLoop(ls, k + 1, M_ParaStep(st, Strip(ls[k])))

\* RE_COLOPHON_BOOK1 = r'^Among the Quadi at the Granua\.\s*$' and
\* RE_COLOPHON_BOOK2 = r'^This in Carnuntum\.\s*$', on last.strip()
\* A colophon test that does not look at the number of the book.
M_RE_COLOPHON_anybook(book_num, s) ==
    \/ StartsWith(s, M_LIT_COLOPHON_1)
          /\ RunLen(IsSpace, s, Len(M_LIT_COLOPHON_1)) = Len(s) - Len(M_LIT_COLOPHON_1)
    \/ StartsWith(s, M_LIT_COLOPHON_2)
          /\ RunLen(IsSpace, s, Len(M_LIT_COLOPHON_2)) = Len(s) - Len(M_LIT_COLOPHON_2)

M_RE_COLOPHON(book_num, s) ==
    \/ book_num = 1 /\ StartsWith(s, M_LIT_COLOPHON_1)
                    /\ RunLen(IsSpace, s, Len(M_LIT_COLOPHON_1)) = Len(s) - Len(M_LIT_COLOPHON_1)
    \/ book_num = 2 /\ StartsWith(s, M_LIT_COLOPHON_2)
                    /\ RunLen(IsSpace, s, Len(M_LIT_COLOPHON_2)) = Len(s) - Len(M_LIT_COLOPHON_2)

\* 'Handle colophons': a last section that is the colophon of book 1 or 2
\* is joined to the section before it, if there is one.
M_AttachColophon(book_num, secs) ==
    IF /\ Len(secs) >= 2
       /\ M_RE_COLOPHON(book_num, Strip(secs[Len(secs)]))
    THEN Append(SubSeq(secs, 1, Len(secs) - 2),
                secs[Len(secs) - 1] \o <<"\n", "\n">> \o secs[Len(secs)])
    ELSE secs

M_split_book_into_sections(book_num, ls) ==
    M_AttachColophon(book_num,
        M_ParaLoop(ls, 1, [sections |-> <<>>, current_paragraph_lines |-> <<>>]))

\* 'meditations_b'
M_LIT_ID ==
    <<"m", "e", "d", "i", "t", "a", "t", "i", "o", "n", "s", "_", "b">>

\* ', Section '
M_LIT_SECTION_REF ==
    <<",", " ", "S", "e", "c", "t", "i", "o", "n", " ">>

M_Section(book_num, sec_idx, text) ==
    [id |-> M_LIT_ID \o IntToDec(book_num) \o <<"_", "s">> \o IntToDec(sec_idx),
     book |-> book_num, book_title |-> M_BOOK_WORD_TO_TITLE(book_num),
     chapter |-> None, chapter_title |-> NoneT,
     section |-> sec_idx,
     letter_number |-> None,
     text |-> text,
     word_count |-> WordCount(text),
     source_reference |->
         M_LIT_BOOK_LC \o IntToDec(book_num) \o M_LIT_SECTION_REF \o IntToDec(sec_idx)]

M_BuildItem(book_num, sec_idx, text, acc) ==
    IF text = <<>> THEN acc ELSE Append(acc, M_Section(book_num, sec_idx, text))

\* The inner loop of build_sections, over the raw sections of one book.
RECURSIVE M_BuildBook(_, _, _, _)
M_BuildBook(book_num, raw_sections, sec_idx, acc) ==
    IF sec_idx > Len(raw_sections) THEN acc
    ELSE M_BuildBook(book_num, raw_sections, sec_idx + 1,
             M_BuildItem(book_num, sec_idx, M_clean_text(raw_sections[sec_idx]), acc))

RECURSIVE M_BuildLoop(_, _, _)
M_BuildLoop(books, k, acc) ==
    IF k > Len(books) THEN acc
    ELSE M_BuildLoop(books, k + 1,
             M_BuildBook(books[k][1],
                         M_split_book_into_sections(books[k][1], books[k][2]),
                         1, acc))

M_build_sections(books) == M_BuildLoop(books, 1, <<>>)

\* The (1-based) numbers of the lines that validate lists as unparsed
\* structural markers.
M_UnparsedMarkers(original_lines) ==
    SelectSeq([k \in 1..Len(original_lines) |-> k],
              LAMBDA k : /\ StartsWith(Strip(original_lines[k]), M_LIT_BOOK_SP)
                         /\ M_RE_BOOK_HEADER(Strip(original_lines[k])) = <<>>)

\* validate of Meditations: [raised, report].  It derives no duplicate keys
\* and computes no minimum.
M_validate(secs, original_lines) ==
    [raised |-> FALSE,
     report |-> [EmptyReport EXCEPT
         !.short = ShortSections(secs),
         !.unparsed = M_UnparsedMarkers(original_lines),
         !.warnings = IF {secs[k].book : k \in 1..Len(secs)} # 1..12
                      THEN {"books"} ELSE {}]]

-----------------------------------------------------------------------------
(* The inputs of the model *)

\* All sequences over S of length at most n.
SeqsUpTo(S, n) == UNION {[1..k -> S] : k \in 0..n}

\* 'c'
LINE_WORD ==
    <<"c">>

\* ' a  b[2] '
LINE_CONTENT ==
    <<" ", "a", " ", " ", "b", "[", "2", "]", " ">>

LINE_FOOTNOTE == <<UpArrow, " ", "n">>

LINE_BLANK == <<>>

\* 'I. AB'
L_LINE_HEADER_I ==
    <<"I", ".", " ", "A", "B">>

\* 'II. CD.[1]'
L_LINE_HEADER_II ==
    <<"I", "I", ".", " ", "C", "D", ".", "[", "1", "]">>

\* 'ON THE LESSON TO BE DRAWN FROM THE BURNING OF LYONS[1]'
L_LINE_LYONS ==
    <<"O", "N", " ", "T", "H", "E", " ", "L", "E", "S", "S", "O", "N", " ",
      "T", "O", " ", "B", "E", " ", "D", "R", "A", "W", "N", " ", "F", "R",
      "O", "M", " ", "T", "H", "E", " ", "B", "U", "R", "N", "I", "N", "G",
      " ", "O", "F", " ", "L", "Y", "O", "N", "S", "[", "1", "]">>

\* 'I. AB 3'
L_LINE_TOC ==
    <<"I", ".", " ", "A", "B", " ", "3">>

\* '* * *'
L_LINE_SEPARATOR ==
    <<"*", " ", "*", " ", "*">>

\* The lines the body of a Letters input is drawn from.
L_Catalogue ==
    {L_LINE_HEADER_I, L_LINE_HEADER_II, L_LINE_LYONS, L_LINE_TOC, LINE_WORD,
     LINE_CONTENT, LINE_BLANK, L_LINE_SEPARATOR, LINE_FOOTNOTE}

\* What a Letters input starts with: nothing, the volume header that opens
\* a letter region, a region that already holds a first letter, or a region
\* where the unnumbered header of letter 91 follows a letter.
L_Seeds ==
    {<<>>, <<L_LIT_VOLUME_HEADER>>,
     <<L_LIT_VOLUME_HEADER, L_LINE_HEADER_I, LINE_WORD>>,
     <<L_LIT_VOLUME_HEADER, L_LINE_HEADER_II, LINE_WORD, L_LIT_LYONS>>}

L_Inputs == {seed \o body : seed \in L_Seeds, body \in SeqsUpTo(L_Catalogue, MaxLines)}

\* 'CHAPTER II'
D_LINE_CHAPTER_II ==
    <<"C", "H", "A", "P", "T", "E", "R", " ", "I", "I">>

\* 'BOOK II'
D_LINE_BOOK_II ==
    <<"B", "O", "O", "K", " ", "I", "I">>

\* 'OF X'
D_LINE_TITLE ==
    <<"O", "F", " ", "X">>

\* '^1-1 n'
D_LINE_NOTE ==
    <<"^", "1", "-", "1", " ", "n">>

\* '1'
D_LINE_NUMBER ==
    <<"1">>

\* 'a [*b] d[p. 2]'
D_LINE_CONTENT ==
    <<"a", " ", "[", "*", "b", "]", " ", "d", "[", "p", ".", " ", "2", "]">>

\* The lines the body of a Discourses input is drawn from.
D_Catalogue ==
    {D_LINE_CHAPTER_II, D_LINE_BOOK_II, LINE_WORD, D_LINE_CONTENT, D_LINE_NOTE,
     D_LIT_FRAGMENTS, D_LINE_NUMBER, D_LIT_MANUAL}

\* What a Discourses input starts with: nothing, the two anchors, the
\* anchors with a preface and a first chapter, the anchors with a first
\* section of the Manual, or the anchors with a note line after them.
D_Seeds ==
    {<<>>, <<D_LIT_PREFACE, D_LIT_BOOK_I>>,
     <<D_LIT_PREFACE, LINE_WORD, D_LIT_BOOK_I, D_LINE_CHAPTER_II, D_LINE_TITLE,
       LINE_WORD>>,
     <<D_LIT_PREFACE, D_LIT_BOOK_I, D_LIT_MANUAL, D_LINE_NUMBER, LINE_WORD>>,
     <<D_LIT_PREFACE, D_LIT_BOOK_I, D_LINE_NOTE>>}

D_Inputs == {seed \o body : seed \in D_Seeds, body \in SeqsUpTo(D_Catalogue, MaxLines)}

\* '1.'
S_LINE_HEADER_1 ==
    <<"1", ".">>

\* '1. d'
S_LINE_HEADER_1_TEXT ==
    <<"1", ".", " ", "d">>

\* '2. e'
S_LINE_HEADER_2 ==
    <<"2", ".", " ", "e">>

\* 'Footnotes'
S_LINE_FOOTNOTES ==
    <<"F", "o", "o", "t", "n", "o", "t", "e", "s">>

\* The lines the body of a Shortness input is drawn from.
S_Catalogue ==
    {S_LINE_HEADER_1, S_LINE_HEADER_2, LINE_WORD, LINE_CONTENT,
     S_LINE_FOOTNOTES, LINE_FOOTNOTE, LINE_BLANK}

\* What a Shortness input starts with: nothing, or a first chapter.
S_Seeds == {<<>>, <<S_LINE_HEADER_1_TEXT, LINE_WORD>>}

S_Inputs == {seed \o body : seed \in S_Seeds, body \in SeqsUpTo(S_Catalogue, MaxLines)}

\* 'BOOK TWO'
M_LINE_BOOK_TWO ==
    <<"B", "O", "O", "K", " ", "T", "W", "O">>

\* '----------'
M_LINE_SEPARATOR ==
    <<"-", "-", "-", "-", "-", "-", "-", "-", "-", "-">>

\* The lines the body of a Meditations input is drawn from.
M_Catalogue ==
    {M_LIT_BOOK_ONE, M_LINE_BOOK_TWO, LINE_WORD, LINE_BLANK, M_LIT_COLOPHON_1,
     M_LINE_SEPARATOR}

\* What a Meditations input starts with: nothing, or a first book.
M_Seeds == {<<>>, <<M_LIT_BOOK_ONE, LINE_WORD>>}

\* What a Meditations input ends with: nothing, or the footer.
M_Tails == {<<>>, <<M_LIT_THE_END>>}

M_Inputs ==
    {seed \o body \o tail :
        seed \in M_Seeds, body \in SeqsUpTo(M_Catalogue, MaxLines), tail \in M_Tails}

-----------------------------------------------------------------------------
(* main() of the four scripts *)

EmptyRaw ==
    [preface_text |-> <<>>, chapters |-> <<>>, fragments |-> <<>>,
     manual_sections |-> <<>>, raw_letters |-> <<>>, raw_chapters |-> <<>>,
     books |-> <<>>]

NoLocals == [r |-> 0]

Docs == {"D", "L", "M", "S"}

Inputs(d) ==
    IF d = "D" THEN D_Inputs
    ELSE IF d = "L" THEN L_Inputs
    ELSE IF d = "M" THEN M_Inputs
    ELSE S_Inputs

\* No script runs: the state of the run variables, pc apart, under the
\* specifications that exercise one function.
RunIdle ==
    /\ doc = "none" /\ dry_run = FALSE /\ lines = <<>>
    /\ idx = 0 /\ ps = NoLocals /\ raw = EmptyRaw /\ sections = <<>>
    /\ report = EmptyReport /\ written = FALSE /\ exit_status = None

PureIdle == fn = "none" /\ arg = <<>> /\ res = <<>>

\* main() has parsed its arguments and read the file into all_lines.
Init ==
    /\ PureIdle
    /\ doc \in Docs
    /\ dry_run \in BOOLEAN
    /\ lines \in Inputs(doc)
    /\ pc = "start"
    /\ idx = 0
    /\ ps = NoLocals
    /\ raw = EmptyRaw
    /\ sections = <<>>
    /\ report = EmptyReport
    /\ written = FALSE
    /\ exit_status = None

\* sys.exit(1), and an exception that reaches the top of the script.
Exit1 ==
    /\ pc' = "done" /\ exit_status' = 1
    /\ UNCHANGED <<pureVars, doc, dry_run, lines, idx, ps, raw, sections,
                   report, written>>

L_FindRegionsWith(regions) ==
    /\ ps' = L_RegionLocals(regions, 1)
    /\ idx' = IF regions # <<>> THEN regions[1][1] ELSE 0
    /\ pc' = IF regions # <<>> THEN "parse" ELSE "parsed"
    /\ UNCHANGED <<pureVars, doc, dry_run, lines, raw, sections, report,
                   written, exit_status>>

\* regions = find_letter_regions(all_lines), and the entry of parse_letters.
L_FindRegions ==
    /\ doc = "L" /\ pc = "start"
    /\ L_FindRegionsWith(L_find_letter_regions(lines))

L_LineWith(out) ==
    /\ ps' = out.ps
    /\ raw' = [raw EXCEPT !.raw_letters = out.raw_letters]
    /\ idx' = idx + 1
    /\ UNCHANGED <<pureVars, doc, dry_run, lines, pc, sections, report,
                   written, exit_status>>

\* One iteration of 'for idx in range(region_start, region_end)'.
L_Line ==
    /\ doc = "L" /\ pc = "parse"
    /\ idx < ps.regions[ps.r][2]
    /\ L_LineWith(L_ParseLine(ps, raw.raw_letters, lines[idx + 1]))

\* The end of a region: flush the open letter and enter the next region, or
\* return raw_letters.
\* parse_letters without the append that follows the loop over a region:
\* the letter open at the end of a region is lost.
L_RegionEnd_noflush ==
    /\ doc = "L" /\ pc = "parse"
    /\ idx >= ps.regions[ps.r][2]
    /\ raw' = raw
    /\ ps' = L_RegionLocals(ps.regions, ps.r + 1)
    /\ IF ps.r < Len(ps.regions)
       THEN idx' = ps.regions[ps.r + 1][1] /\ pc' = "parse"
       ELSE idx' = idx /\ pc' = "parsed"
    /\ UNCHANGED <<pureVars, doc, dry_run, lines, sections, report,
                   written, exit_status>>

L_RegionEnd ==
    /\ doc = "L" /\ pc = "parse"
    /\ idx >= ps.regions[ps.r][2]
    /\ raw' = [raw EXCEPT !.raw_letters =
                  IF ps.current_letter_num # None
                  THEN Append(@, L_RawLetter(ps)) ELSE @]
    /\ ps' = L_RegionLocals(ps.regions, ps.r + 1)
    /\ IF ps.r < Len(ps.regions)
       THEN idx' = ps.regions[ps.r + 1][1] /\ pc' = "parse"
       ELSE idx' = idx /\ pc' = "parsed"
    /\ UNCHANGED <<pureVars, doc, dry_run, lines, sections, report,
                   written, exit_status>>

D_ParseStartWith(b, content_end) ==
    IF b.preface_start = None \/ b.book1_start = None THEN Exit1
    ELSE /\ raw' = [raw EXCEPT !.preface_text =
                        D_PrefaceText(lines, b.preface_start, b.book1_start)]
         /\ ps' = D_ChapterLocals(b.book1_start, content_end)
         /\ idx' = b.book1_start
         /\ pc' = "parse"
         /\ UNCHANGED <<pureVars, doc, dry_run, lines, sections, report,
                        written, exit_status>>

\* Phase 1 without the fallback 'content_end = len(lines)'.
D_ContentEnd_nofallback(b, ls) == IF b.content_end = None THEN 0 ELSE b.content_end

D_ContentEnd(b, ls) == IF b.content_end = None THEN Len(ls) ELSE b.content_end

\* Phases 1 and 2 of parse_discourses, and the entry of phase 3.
D_ParseStart ==
    /\ doc = "D" /\ pc = "start"
    /\ D_ParseStartWith(D_FindBounds(lines), D_ContentEnd(D_FindBounds(lines), lines))

D_LineWith(out) ==
    /\ ps' = out.ps
    /\ raw' = [raw EXCEPT !.chapters = out.chapters]
    /\ idx' = idx + 1
    /\ UNCHANGED <<pureVars, doc, dry_run, lines, pc, sections, report,
                   written, exit_status>>

\* One iteration of 'for idx in range(book1_start, content_end)'.
D_Line ==
    /\ doc = "D" /\ pc = "parse"
    /\ idx < ps.content_end
    /\ D_LineWith(D_ParseLine(ps, raw.chapters, lines[idx + 1]))

\* 'Flush last chapter', and the return of parse_discourses.
D_ChaptersEnd ==
    /\ doc = "D" /\ pc = "parse"
    /\ idx >= ps.content_end
    /\ raw' = [raw EXCEPT !.chapters = D_CloseChapter(ps, @)]
    /\ pc' = "fragments"
    /\ UNCHANGED <<pureVars, doc, dry_run, lines, idx, ps, sections, report,
                   written, exit_status>>

\* fragments = parse_fragments(all_lines)
D_Fragments ==
    /\ doc = "D" /\ pc = "fragments"
    /\ raw' = [raw EXCEPT !.fragments = D_parse_fragments(lines)]
    /\ pc' = "manual"
    /\ UNCHANGED <<pureVars, doc, dry_run, lines, idx, ps, sections, report,
                   written, exit_status>>

\* manual_sections = parse_manual(all_lines)
D_Manual ==
    /\ doc = "D" /\ pc = "manual"
    /\ raw' = [raw EXCEPT !.manual_sections = D_parse_manual(lines)]
    /\ pc' = "parsed"
    /\ UNCHANGED <<pureVars, doc, dry_run, lines, idx, ps, sections, report,
                   written, exit_status>>

S_FindContentStartWith(content_start) ==
    IF content_start = None THEN Exit1
    ELSE /\ ps' = S_ChapterLocals
         /\ idx' = content_start
         /\ pc' = "parse"
         /\ UNCHANGED <<pureVars, doc, dry_run, lines, raw, sections, report,
                        written, exit_status>>

\* content_start = find_content_start(all_lines), and the entry of
\* parse_chapters.
S_FindContentStart ==
    /\ doc = "S" /\ pc = "start"
    /\ S_FindContentStartWith(S_find_content_start(lines))

S_LineWith(out) ==
    /\ ps' = out.ps
    /\ raw' = [raw EXCEPT !.raw_chapters = out.raw_chapters]
    /\ idx' = idx + 1
    /\ UNCHANGED <<pureVars, doc, dry_run, lines, pc, sections, report,
                   written, exit_status>>

\* One iteration of 'for i in range(start_idx, len(lines))'.
S_Line ==
    /\ doc = "S" /\ pc = "parse"
    /\ idx < Len(lines)
    /\ S_LineWith(S_ParseLine(ps, raw.raw_chapters, lines[idx + 1]))

\* 'Flush last chapter', and the return of parse_chapters.
S_ChaptersEnd ==
    /\ doc = "S" /\ pc = "parse"
    /\ idx >= Len(lines)
    /\ raw' = [raw EXCEPT !.raw_chapters =
                  IF ps.current_num # None THEN Append(@, S_RawChapter(ps)) ELSE @]
    /\ pc' = "parsed"
    /\ UNCHANGED <<pureVars, doc, dry_run, lines, idx, ps, sections, report,
                   written, exit_status>>

M_StripHeaderFooterWith(out) ==
    IF out.exits THEN Exit1
    ELSE /\ ps' = M_BookLocals(out.content)
         /\ idx' = 0
         /\ pc' = "parse"
         /\ UNCHANGED <<pureVars, doc, dry_run, lines, raw, sections, report,
                        written, exit_status>>

\* content_lines = strip_header_footer(all_lines), and the entry of
\* split_into_books.
M_StripHeaderFooter ==
    /\ doc = "M" /\ pc = "start"
    /\ M_StripHeaderFooterWith(M_strip_header_footer(lines))

M_LineWith(out) ==
    /\ ps' = out.ps
    /\ raw' = [raw EXCEPT !.books = out.books]
    /\ idx' = idx + 1
    /\ UNCHANGED <<pureVars, doc, dry_run, lines, pc, sections, report,
                   written, exit_status>>

\* One iteration of 'for line in lines' of split_into_books; idx counts the
\* content lines.
M_Line ==
    /\ doc = "M" /\ pc = "parse"
    /\ idx < Len(ps.content)
    /\ M_LineWith(M_SplitLine(ps, raw.books, ps.content[idx + 1]))

\* "Don't forget the last book", and the return of split_into_books.
M_BooksEnd ==
    /\ doc = "M" /\ pc = "parse"
    /\ idx >= Len(ps.content)
    /\ raw' = [raw EXCEPT !.books =
                  IF ps.current_book_num # None THEN Append(@, M_RawBook(ps)) ELSE @]
    /\ pc' = "parsed"
    /\ UNCHANGED <<pureVars, doc, dry_run, lines, idx, ps, sections, report,
                   written, exit_status>>

\* if args.dry_run: print the structural analysis and return.
DryRun ==
    /\ pc = "parsed" /\ dry_run
    /\ pc' = "done" /\ exit_status' = 0
    /\ UNCHANGED <<pureVars, doc, dry_run, lines, idx, ps, raw, sections,
                   report, written>>

build_sections(d, r) ==
    IF d = "D"
    THEN D_build_sections(r.preface_text, r.chapters, r.fragments, r.manual_sections)
    ELSE IF d = "L" THEN L_build_sections(r.raw_letters)
    ELSE IF d = "M" THEN M_build_sections(r.books)
    ELSE S_build_sections(r.raw_chapters)

\* build_sections is reached in a dry run too.
BuildSections_dry ==
    /\ pc = "parsed"
    /\ sections' = build_sections(doc, raw)
    /\ pc' = "built"
    /\ UNCHANGED <<pureVars, doc, dry_run, lines, idx, ps, raw, report,
                   written, exit_status>>

BuildSections ==
    /\ pc = "parsed" /\ ~dry_run
    /\ sections' = build_sections(doc, raw)
    /\ pc' = "built"
    /\ UNCHANGED <<pureVars, doc, dry_run, lines, idx, ps, raw, report,
                   written, exit_status>>

validate(d, secs, original_lines) ==
    IF d = "D" THEN D_validate(secs, original_lines)
    ELSE IF d = "L" THEN L_validate(secs, original_lines)
    ELSE IF d = "M" THEN M_validate(secs, original_lines)
    ELSE S_validate(secs, original_lines)

ValidateWith(v) ==
    /\ report' = v.report
    /\ IF v.raised THEN pc' = "done" /\ exit_status' = 1
                   ELSE pc' = "validated" /\ exit_status' = exit_status
    /\ UNCHANGED <<pureVars, doc, dry_run, lines, idx, ps, raw, sections,
                   written>>

\* validate(sections, all_lines); an exception it raises ends the process
\* with status 1.
Validate ==
    /\ pc = "built"
    /\ ValidateWith(validate(doc, sections, lines))

\* print_sample(sections), then out_path.write_text(...).
WriteOutput ==
    /\ pc = "validated"
    /\ written' = TRUE
    /\ pc' = "done" /\ exit_status' = 0
    /\ UNCHANGED <<pureVars, doc, dry_run, lines, idx, ps, raw, sections,
                   report>>

Next ==
    \/ L_FindRegions
    \/ L_Line
    \/ L_RegionEnd
    \/ D_ParseStart
    \/ D_Line
    \/ D_ChaptersEnd
    \/ D_Fragments
    \/ D_Manual
    \/ S_FindContentStart
    \/ S_Line
    \/ S_ChaptersEnd
    \/ M_StripHeaderFooter
    \/ M_Line
    \/ M_BooksEnd
    \/ DryRun
    \/ BuildSections
    \/ Validate
    \/ WriteOutput

Spec == Init /\ [][Next]_vars

-----------------------------------------------------------------------------
(* The numeral functions on their own: encode n, then decode the numeral *)

int_to_roman(f, n) == IF f = "L" THEN L_int_to_roman(n) ELSE D_int_to_roman(n)

roman_to_int(f, s) == IF f = "L" THEN L_roman_to_int(s) ELSE D_roman_to_int(s)

InitRoman ==
    /\ fn \in {"L", "D"}
    /\ arg \in 1..MaxRoman
    /\ res = [roman |-> NoneT, n |-> None]
    /\ pc = "call"
    /\ RunIdle

\* roman = int_to_roman(arg)
Encode ==
    /\ pc = "call"
    /\ res' = [res EXCEPT !.roman = int_to_roman(fn, arg)]
    /\ pc' = "encoded"
    /\ UNCHANGED <<fn, arg, doc, dry_run, lines, idx, ps, raw, sections,
                   report, written, exit_status>>

\* n = roman_to_int(roman)
Decode ==
    /\ pc = "encoded"
    /\ res' = [res EXCEPT !.n = roman_to_int(fn, res.roman)]
    /\ pc' = "decoded"
    /\ UNCHANGED <<fn, arg, doc, dry_run, lines, idx, ps, raw, sections,
                   report, written, exit_status>>

NextRoman == Encode \/ Decode

SpecRoman == InitRoman /\ [][NextRoman]_vars

-----------------------------------------------------------------------------
(* The text normalizers on their own: clean a text, then clean the result *)

\* '[*[p. 2]b]'
CLEAN_NESTED_PAGE ==
    <<"[", "*", "[", "p", ".", " ", "2", "]", "b", "]">>

\* 'c[[1]2]'
CLEAN_NESTED_MARKER ==
    <<"c", "[", "[", "1", "]", "2", "]">>

\* 'd <U+2191>e'
CLEAN_ARROW_INSIDE == <<"d", " ", UpArrow, "e">>

\* The lines a text to clean is made of.
CleanCatalogue ==
    {LINE_WORD, <<" ">>, D_LINE_CONTENT, LINE_CONTENT, CLEAN_NESTED_PAGE,
     CLEAN_NESTED_MARKER, CLEAN_ARROW_INSIDE}

CleanFns == {"D_clean_text", "M_clean_text", "L_clean_letter_text", "S_clean_chapter_text"}

\* The call build_sections makes of each normalizer, on the lines ls of a
\* raw section: the Discourses and the Meditations clean the joined text,
\* Shortness takes the first line apart.
clean(f, ls) ==
    IF f = "D_clean_text" THEN D_clean_text(Join(<<"\n">>, ls))
    ELSE IF f = "M_clean_text" THEN M_clean_text(Join(<<"\n">>, ls))
    ELSE IF f = "L_clean_letter_text" THEN L_clean_letter_text(ls, 1)
    ELSE S_clean_chapter_text(IF ls = <<>> THEN <<>> ELSE Head(ls),
                              IF ls = <<>> THEN <<>> ELSE Tail(ls))

InitClean ==
    /\ fn \in CleanFns
    /\ arg \in SeqsUpTo(CleanCatalogue, MaxPieces)
    /\ res = [once |-> NoneT, twice |-> NoneT]
    /\ pc = "call"
    /\ RunIdle

\* once = clean(arg)
Clean ==
    /\ pc = "call"
    /\ res' = [res EXCEPT !.once = clean(fn, arg)]
    /\ pc' = "cleaned"
    /\ UNCHANGED <<fn, arg, doc, dry_run, lines, idx, ps, raw, sections,
                   report, written, exit_status>>

\* twice = clean_text(once), for the two functions that take a text
CleanAgain ==
    /\ pc = "cleaned"
    /\ fn \in {"D_clean_text", "M_clean_text"}
    /\ res' = [res EXCEPT !.twice = clean(fn, <<res.once>>)]
    /\ pc' = "recleaned"
    /\ UNCHANGED <<fn, arg, doc, dry_run, lines, idx, ps, raw, sections,
                   report, written, exit_status>>

NextClean == Clean \/ CleanAgain

SpecClean == InitClean /\ [][NextClean]_vars

-----------------------------------------------------------------------------
(* Properties: hierarchy keys (C1, C2) *)

\* The hierarchy key of a section s of script d: (book, chapter) of a
\* Discourses chapter, the number of a fragment (its id holds it), the
\* section number of the Manual, letter_number, (book, section), chapter.
HierarchyKey(d, s) ==
    IF d = "L" THEN <<"letter", s.letter_number>>
    ELSE IF d = "S" THEN <<"chapter", s.chapter>>
    ELSE IF d = "M" THEN <<"section", s.book, s.section>>
    ELSE IF StartsWith(s.id, D_LIT_ID_BOOK) THEN <<"chapter", s.book, s.chapter>>
    ELSE IF StartsWith(s.id, D_LIT_ID_FRAG) THEN <<"fragment", s.id>>
    ELSE IF StartsWith(s.id, D_LIT_ID_MANUAL) THEN <<"manual", s.chapter>>
    ELSE <<"preface">>

\* C1: the sections one run emits never hold two sections with the same
\* hierarchy key, whatever the input lines.
C1_UniqueKeys ==
    \A i, j \in 1..Len(sections) :
        i # j => HierarchyKey(doc, sections[i]) # HierarchyKey(doc, sections[j])

\* The keys validate named in a duplicate warning.
ReportedDuplicates(d) ==
    IF d = "L" THEN {<<"letter", n>> : n \in report.duplicate}
    ELSE IF d = "S" THEN {<<"chapter", n>> : n \in report.duplicate}
    ELSE report.duplicate

\* C2: in every converter, when the sections passed to validate hold two
\* sections with the same hierarchy key, validate reports a duplicate
\* warning for that key.
C2_DuplicatesReported ==
    pc = "validated" =>
        \A i, j \in 1..Len(sections) :
            (i # j /\ HierarchyKey(doc, sections[i]) = HierarchyKey(doc, sections[j]))
                => HierarchyKey(doc, sections[i]) \in ReportedDuplicates(doc)

-----------------------------------------------------------------------------
(* Properties: suppressed regions (C3) *)

\* The segmenter of Discourses is about to read a CHAPTER header line.
D_AtChapterHeader ==
    /\ doc = "D" /\ pc = "parse" /\ idx < ps.content_end
    /\ D_RE_CHAPTER_HEADER(Strip(lines[idx + 1])) # <<>>

\* The step opens the chapter of the header line it reads.
D_OpensChapter ==
    /\ ps'.current_chapter_num = D_roman_to_int(D_RE_CHAPTER_HEADER(Strip(lines[idx + 1])))
    /\ ps'.current_chapter_lines = <<>>
    /\ ps'.awaiting_title
    /\ raw'.chapters = D_CloseChapter(ps, raw.chapters)

\* The segmenter of Shortness is about to read a header of a chapter 1..20.
S_AtChapterHeader ==
    /\ doc = "S" /\ pc = "parse" /\ idx < Len(lines)
    /\ S_RE_CHAPTER_HEADER(Strip(lines[idx + 1])).ok
    /\ S_RE_CHAPTER_HEADER(Strip(lines[idx + 1])).num \in 1..20

S_OpensChapter ==
    /\ ps'.current_num = S_RE_CHAPTER_HEADER(Strip(lines[idx + 1])).num
    /\ ps'.current_first_line_text = S_RE_CHAPTER_HEADER(Strip(lines[idx + 1])).rest
    /\ ps'.current_lines = <<>>
    /\ ~ps'.in_footnotes
    /\ raw'.raw_chapters =
           IF ps.current_num # None THEN Append(raw.raw_chapters, S_RawChapter(ps))
           ELSE raw.raw_chapters

\* The segmenter of Letters is about to read a letter header line.
L_AtLetterHeader ==
    /\ doc = "L" /\ pc = "parse" /\ idx < ps.regions[ps.r][2]
    /\ L_is_letter_header(lines[idx + 1]).ok

\* The open letter already holds a footnote line: what follows in it is
\* footnote material to clean_letter_text.
L_InFootnotes ==
    \E k \in 1..Len(ps.current_lines) : RE_FOOTNOTE_LINE(Strip(ps.current_lines[k]))

L_OpensLetter ==
    /\ ps'.current_letter_num = L_is_letter_header(lines[idx + 1]).num
    /\ ps'.current_title = L_is_letter_header(lines[idx + 1]).title
    /\ ps'.current_lines = <<>>
    /\ raw'.raw_letters =
           IF ps.current_letter_num # None THEN Append(raw.raw_letters, L_RawLetter(ps))
           ELSE raw.raw_letters

\* The step leaves the open section and the closed ones as they are.
OpensNothing == raw' = raw /\ ps' = ps

\* C3 as stated: in Discourses (notes), Shortness (footnotes) and Letters
\* (footnotes), a header line read while the suppressed region is active
\* opens no section, and the same line read when the region is closed
\* opens one.
C3_HeaderSuppressedEverywhere ==
    [][/\ D_AtChapterHeader => IF ps.in_notes THEN OpensNothing ELSE D_OpensChapter
       /\ S_AtChapterHeader => IF ps.in_footnotes THEN OpensNothing ELSE S_OpensChapter
       /\ L_AtLetterHeader =>
              IF L_InFootnotes
              THEN raw' = raw /\ ps'.current_letter_num = ps.current_letter_num
              ELSE L_OpensLetter]_vars

\* C3, amended: in Discourses a CHAPTER header line read inside the notes
\* region opens no chapter, and the same line read after a BOOK header has
\* closed the region opens one; in Shortness and in Letters the header is
\* what ends the footnotes: a header of a chapter 1..20 read inside the
\* footnotes of Shortness, and a letter header read after a footnote line
\* of the open letter, open a new section.
C3_HeaderSuppressedInNotes ==
    [][/\ D_AtChapterHeader => IF ps.in_notes THEN OpensNothing ELSE D_OpensChapter
       /\ S_AtChapterHeader => S_OpensChapter
       /\ L_AtLetterHeader => L_OpensLetter]_vars

\* A note line, a CHAPTER header that opened nothing, the BOOK header that
\* closed the notes, and the same CHAPTER header, which opened a chapter.
C3_Witness ==
    /\ doc = "D" /\ pc = "parse" /\ idx >= 4
    /\ D_RE_NOTE_LINE(Strip(lines[idx - 3]))
    /\ lines[idx - 2] = lines[idx]
    /\ D_RE_BOOK_HEADER(Strip(lines[idx - 1])) # <<>>
    /\ D_RE_CHAPTER_HEADER(Strip(lines[idx])) # <<>>
    /\ raw.chapters = <<>>
    /\ ps.current_chapter_num = D_roman_to_int(D_RE_CHAPTER_HEADER(Strip(lines[idx])))
    /\ ps.awaiting_title

-----------------------------------------------------------------------------
(* Properties: normalization (C4, C5) *)

\* A text still holds an annotation marker of its script: '[*x-n]' or
\* '[p. N]' in the Discourses, '[digits]' in the Letters and Shortness.
HasResidualMarker(f, t) ==
    IF f = "D_clean_text"
    THEN \E i \in 0..(Len(t) - 1) : MatchStarRef(t, i) > 0 \/ D_RE_INLINE_PAGE(t, i) > 0
    ELSE \E i \in 0..(Len(t) - 1) : RE_FOOTNOTE_MARKER(t, i) > 0

\* C4: the normalized text of a raw section, whatever its lines, holds no
\* residual marker ([digits] in Letters and Shortness, [*x-n] and [p. N] in
\* the Discourses) and no up-arrow (the footnote sentinel of Letters and
\* Shortness).
C4_NoResidue ==
    (pc \in {"cleaned", "recleaned"} /\ fn # "M_clean_text") =>
        /\ ~HasResidualMarker(fn, res.once)
        /\ fn # "D_clean_text" => ~Contains(res.once, <<UpArrow>>)

\* C5: clean_text(clean_text(t)) = clean_text(t) for every text t, for the
\* clean_text of the Discourses and of the Meditations.
C5_CleanTextIdempotent == pc = "recleaned" => res.twice = res.once

-----------------------------------------------------------------------------
(* Properties: numerals (C6, C7) *)

\* C6: roman_to_int(int_to_roman(n)) = n for every n in 1..124, in the
\* Discourses' and in the Letters' copy of the functions.
C6_RomanRoundTrip == pc = "decoded" => res.n = arg

C6_Witness == pc = "decoded" /\ fn = "L" /\ arg = 94 /\ res.n = 94

\* C7: int_to_roman(n), for n in 1..124, is not empty and made of I, V, X,
\* L and C only, so the numeral part of the header pattern that parses it
\* back accepts it whole.
C7_RomanAlphabet ==
    pc \in {"encoded", "decoded"} =>
        /\ res.roman # <<>>
        /\ \A k \in 1..Len(res.roman) : res.roman[k] \in {"I", "V", "X", "L", "C"}
        /\ IF fn = "L"
           THEN L_RE_LETTER_HEADER(res.roman \o <<".", " ", "A", "B">>).roman = res.roman
           ELSE D_RE_CHAPTER_HEADER(D_LIT_CHAPTER \o res.roman) = res.roman

C7_Witness ==
    pc = "encoded" /\ fn = "L" /\ arg = 89
    /\ res.roman = <<"L", "X", "X", "X", "I", "X">>

-----------------------------------------------------------------------------
(* Properties: sections (C8, C9, C10) *)

\* The positions of a text where a run of non-whitespace characters ends.
TokenEnds(s) ==
    {i \in 1..Len(s) : ~IsSpace(s[i]) /\ (i = Len(s) \/ IsSpace(s[i + 1]))}

\* C8: the word_count of every section emitted by any of the four
\* converters is the number of whitespace-delimited tokens of the
\* section's own text.
C8_WordCount ==
    \A k \in 1..Len(sections) :
        sections[k].word_count = Cardinality(TokenEnds(sections[k].text))

C8_Witness ==
    /\ pc = "done" /\ written /\ Len(sections) >= 2
    /\ \E k \in 1..Len(sections) :
          sections[k].word_count = 2 /\ Len(sections[k].text) > 3

\* 'a b'
C9_TEXT_AB == <<"a", " ", "b">>

\* 'a d'
C9_TEXT_AD == <<"a", " ", "d">>

\* Inputs of a header line, a title line (Discourses) and a content line,
\* with what the claim says of the one section.
C9_BareCases ==
    {[doc |-> "L", lines |-> <<L_LINE_HEADER_I, LINE_WORD>>, text |-> LINE_WORD, words |-> 1],
     [doc |-> "D", lines |-> <<D_LINE_CHAPTER_II, LINE_WORD, LINE_WORD>>,
      text |-> LINE_WORD, words |-> 1],
     [doc |-> "M", lines |-> <<M_LIT_BOOK_ONE, LINE_WORD>>, text |-> LINE_WORD, words |-> 1],
     [doc |-> "S", lines |-> <<S_LINE_HEADER_1, LINE_WORD>>, text |-> LINE_WORD, words |-> 1]}

\* The same with the lines each script needs around them: the volume
\* header before the letter, PREFACE and BOOK I before the chapter, THE END
\* after the book; the content line plain, or with blanks and markers.
C9_AnchoredCases ==
    {[doc |-> "L", lines |-> <<L_LIT_VOLUME_HEADER, L_LINE_HEADER_I, LINE_WORD>>,
      text |-> LINE_WORD, words |-> 1],
     [doc |-> "L", lines |-> <<L_LIT_VOLUME_HEADER, L_LINE_HEADER_I, LINE_CONTENT>>,
      text |-> C9_TEXT_AB, words |-> 2],
     [doc |-> "D",
      lines |-> <<D_LIT_PREFACE, D_LIT_BOOK_I, D_LINE_CHAPTER_II, LINE_WORD, LINE_WORD>>,
      text |-> LINE_WORD, words |-> 1],
     [doc |-> "D",
      lines |-> <<D_LIT_PREFACE, D_LIT_BOOK_I, D_LINE_CHAPTER_II, LINE_WORD, D_LINE_CONTENT>>,
      text |-> C9_TEXT_AD, words |-> 2],
     [doc |-> "M", lines |-> <<M_LIT_BOOK_ONE, LINE_WORD, M_LIT_THE_END>>,
      text |-> LINE_WORD, words |-> 1],
     [doc |-> "S", lines |-> <<S_LINE_HEADER_1, LINE_WORD>>, text |-> LINE_WORD, words |-> 1],
     [doc |-> "S", lines |-> <<S_LINE_HEADER_1, LINE_CONTENT>>,
      text |-> C9_TEXT_AB, words |-> 2]}

\* The run of case c has ended with exactly one section, of c's text and
\* word count.
C9_OneSection(c) ==
    /\ exit_status = 0
    /\ Len(sections) = 1
    /\ sections[1].text = c.text
    /\ sections[1].word_count = c.words

\* C9 as stated: for each converter an input of exactly a header line, a
\* title line (where the format has one) and one content line gives
\* exactly one section, of the trimmed content line and its word count.
C9_BareInputOneSection ==
    \A c \in C9_BareCases :
        (doc = c.doc /\ lines = c.lines /\ ~dry_run /\ pc = "done") => C9_OneSection(c)

\* C9, amended: such an input gives exactly one section once it holds the
\* lines the script needs around it (Letters: the volume header line before
\* the letter header; Discourses: a PREFACE line and a BOOK I line before
\* the chapter header; Meditations: THE END after the book; Shortness: none,
\* the header being the bare number); the text is the content line
\* normalized (trimmed, blanks collapsed, markers removed) and word_count
\* the number of words of that text.
C9_AnchoredInputOneSection ==
    \A c \in C9_AnchoredCases :
        (doc = c.doc /\ lines = c.lines /\ ~dry_run /\ pc = "done") => C9_OneSection(c)

C9_Witness ==
    /\ doc = "D" /\ pc = "done" /\ ~dry_run /\ written
    /\ lines = <<D_LIT_PREFACE, D_LIT_BOOK_I, D_LINE_CHAPTER_II, LINE_WORD, D_LINE_CONTENT>>
    /\ Len(sections) = 1 /\ sections[1].text = C9_TEXT_AD

\* A stripped line is the title of letter 91, alone or with a marker [N].
L_IsLyonsLine(s) ==
    \/ s = L_LIT_LYONS
    \/ /\ Len(s) >= Len(L_LIT_LYONS) + 3
       /\ SubSeq(s, 1, Len(L_LIT_LYONS)) = L_LIT_LYONS
       /\ s[Len(L_LIT_LYONS) + 1] = "[" /\ s[Len(s)] = "]"
       /\ \A k \in (Len(L_LIT_LYONS) + 2)..(Len(s) - 1) : s[k] \in Digit

\* C10: in Letters, a line of a letter region that is 'ON THE LESSON TO BE
\* DRAWN FROM THE BURNING OF LYONS', with or without a marker [N], closes
\* the open letter and opens letter 91, titled by the line without the
\* marker.
C10_Lyons91 ==
    [][(/\ doc = "L" /\ pc = "parse" /\ idx < ps.regions[ps.r][2]
        /\ L_IsLyonsLine(Strip(lines[idx + 1])))
       => /\ ps'.current_letter_num = 91
          /\ ps'.current_title = L_LIT_LYONS
          /\ ps'.current_lines = <<>>
          /\ raw'.raw_letters =
                 IF ps.current_letter_num # None
                 THEN Append(raw.raw_letters, L_RawLetter(ps))
                 ELSE raw.raw_letters]_vars

\* The line with its marker has just closed a letter and opened letter 91.
C10_Witness ==
    /\ doc = "L" /\ pc = "parse" /\ idx >= 1
    /\ lines[idx] = L_LINE_LYONS
    /\ ps.current_letter_num = 91 /\ ps.current_title = L_LIT_LYONS
    /\ raw.raw_letters # <<>>

-----------------------------------------------------------------------------
(* Runs on numbered inputs: the headers 1..n in order, each followed by the *)
(* same block of lines, in Letters, in Shortness and in the Manual          *)

\* The largest number a header may carry: is_letter_header, parse_chapters
\* and parse_manual refuse a greater one ("D" stands for the Manual).
NumberedRange(d) == IF d = "L" THEN 124 ELSE IF d = "S" THEN 20 ELSE 53

\* The header line of number k: 'IX. AB' in Letters, '9.' or '9. e' in
\* Shortness, '9' in the Manual.
NumberedHeader(d, form, k) ==
    IF d = "L" THEN L_int_to_roman(k) \o <<".", " ", "A", "B">>
    ELSE IF d = "S"
         THEN IntToDec(k) \o (IF form = "text" THEN <<".", " ", "e">> ELSE <<".">>)
    ELSE IntToDec(k)

\* The lines before the first header: the volume header of Letters, the two
\* anchors and the Manual header of Discourses.
NumberedPrefix(d) ==
    IF d = "L" THEN <<L_LIT_VOLUME_HEADER>>
    ELSE IF d = "D" THEN <<D_LIT_PREFACE, D_LIT_BOOK_I, D_LIT_MANUAL>>
    ELSE <<>>

\* The lines that follow each header.
NumberedBlocks ==
    {<<LINE_WORD>>, <<LINE_CONTENT>>, <<LINE_WORD, LINE_BLANK, LINE_CONTENT>>,
     <<LINE_WORD, LINE_FOOTNOTE>>, <<LINE_CONTENT, S_LINE_FOOTNOTES, LINE_WORD>>}

NumberedBody(d, form, block, n) ==
    [i \in 1..(n * (Len(block) + 1)) |->
        IF (i - 1) % (Len(block) + 1) = 0
        THEN NumberedHeader(d, form, ((i - 1) \div (Len(block) + 1)) + 1)
        ELSE block[(i - 1) % (Len(block) + 1)]]

\* main() has read a numbered file.
InitNumbered ==
    /\ PureIdle
    /\ doc \in {"D", "L", "S"}
    /\ dry_run = FALSE
    /\ \E form \in {"bare", "text"}, block \in NumberedBlocks,
          n \in 1..Min(MaxNumbered, NumberedRange(doc)) :
            lines = NumberedPrefix(doc) \o NumberedBody(doc, form, block, n)
    /\ pc = "start"
    /\ idx = 0
    /\ ps = NoLocals
    /\ raw = EmptyRaw
    /\ sections = <<>>
    /\ report = EmptyReport
    /\ written = FALSE
    /\ exit_status = None

NextNumbered ==
    \/ L_FindRegions
    \/ L_Line
    \/ L_RegionEnd
    \/ D_ParseStart
    \/ D_Line
    \/ D_ChaptersEnd
    \/ D_Fragments
    \/ D_Manual
    \/ S_FindContentStart
    \/ S_Line
    \/ S_ChaptersEnd
    \/ BuildSections
    \/ Validate
    \/ WriteOutput

SpecNumbered == InitNumbered /\ [][NextNumbered]_vars

-----------------------------------------------------------------------------
(* Properties: numbered inputs (C11) *)

\* The number a line carries as a header of its document, None when the
\* document does not take it for a header.
NumberedHeaderNum(d, l) ==
    IF d = "L" THEN L_is_letter_header(l).num
    ELSE IF d = "S"
         THEN IF S_RE_CHAPTER_HEADER(Strip(l)).num \in 1..20
              THEN S_RE_CHAPTER_HEADER(Strip(l)).num ELSE None
    ELSE IF /\ ~D_is_noise_line(l)
            /\ D_ManualNumber(D_RE_MANUAL_SECTION_NUMBER(Strip(l))) \in 1..53
         THEN D_ManualNumber(D_RE_MANUAL_SECTION_NUMBER(Strip(l))) ELSE None

\* The (1-based) numbers of the header lines of the input.
NumberedHeaders == {i \in 1..Len(lines) : NumberedHeaderNum(doc, lines[i]) # None}

\* A content line: not blank, no header, no noise, no footnote line or
\* footnotes header, and some text is left of it once it is cleaned.
NumberedContent(d, l) ==
    /\ Strip(l) # <<>>
    /\ IF d = "L"
       THEN /\ ~L_is_letter_header(l).ok
            /\ ~RE_FOOTNOTE_LINE(Strip(l)) /\ ~L_RE_SEPARATOR(Strip(l))
            /\ ~L_RE_TOC_ENTRY(Strip(l)) /\ ~L_RE_APPARATUS_ENTRY(Strip(l))
            /\ L_clean_letter_text(<<l>>, 0) # <<>>
       ELSE IF d = "S"
       THEN /\ ~S_RE_CHAPTER_HEADER(Strip(l)).ok
            /\ ~RE_FOOTNOTE_LINE(Strip(l)) /\ ~S_RE_FOOTNOTES_HEADER(Strip(l))
            /\ S_clean_chapter_text(<<>>, <<l>>) # <<>>
       ELSE /\ ~D_is_noise_line(l)
            /\ D_RE_MANUAL_SECTION_NUMBER(Strip(l)) = <<>>
            /\ D_clean_text(Strip(l)) # <<>>

\* The content region that holds the numbered sections, as the lines
\* first..last: the single letter region, the lines of Shortness from the
\* first header on, the Manual part.
NumberedRegion ==
    IF doc = "L"
    THEN IF Len(L_find_letter_regions(lines)) = 1
         THEN [first |-> L_find_letter_regions(lines)[1][1] + 1,
               last  |-> L_find_letter_regions(lines)[1][2]]
         ELSE [first |-> 1, last |-> 0]
    ELSE IF doc = "S" THEN [first |-> 1, last |-> Len(lines)]
    ELSE LET b == D_PartScan("manual", lines, 0, None)
         IN  IF b.start = None THEN [first |-> 1, last |-> 0]
             ELSE [first |-> b.start + 1,
                   last  |-> IF b.end = None THEN Len(lines) ELSE b.end]

\* The input is well formed: its headers lie in the content region, they
\* are numbered 1, 2, ... in that order, and a content line follows each.
WellFormedNumbered ==
    /\ doc \in {"D", "L", "S"}
    /\ NumberedHeaders # {}
    /\ \A i \in NumberedHeaders :
          /\ NumberedRegion.first <= i /\ i + 1 <= NumberedRegion.last
          /\ NumberedHeaderNum(doc, lines[i]) =
                 Cardinality({j \in NumberedHeaders : j <= i})
          /\ NumberedContent(doc, lines[i + 1])

\* The keys of the numbered sections of the output, in its order.
NumberedSections ==
    IF doc = "D"
    THEN SelectSeq(sections, LAMBDA s : s.book_title = D_LIT_MANUAL_TITLE)
    ELSE sections

NumberedKey(s) == IF doc = "L" THEN s.letter_number ELSE s.chapter

\* C11: a well-formed input with the headers 1..N in increasing order, each
\* followed by a content line, yields exactly N sections (of the Manual, in
\* Discourses) and their keys are 1..N in that order.
C11_NumberedSections ==
    (pc \in {"built", "validated", "done"} /\ exit_status # 1 /\ ~dry_run
        /\ WellFormedNumbered)
    => /\ Len(NumberedSections) = Cardinality(NumberedHeaders)
       /\ \A k \in 1..Len(NumberedSections) : NumberedKey(NumberedSections[k]) = k

\* Five sections of the Manual have been written.
C11_Witness ==
    /\ doc = "D" /\ written /\ WellFormedNumbered
    /\ Cardinality(NumberedHeaders) = 5
    /\ Len(NumberedSections) = 5

-----------------------------------------------------------------------------
(* Properties: anchors, dry runs and the write step (C12, C13, C14) *)

\* A content anchor of the running script is not in the input: PREFACE,
\* 'BOOK I' or the notes header of Book IV in Discourses, 'BOOK ONE' or
\* 'THE END' in Meditations, the header of chapter 1 in Shortness, the
\* volume header 'THE EPISTLES OF SENECA' in Letters.
AnchorMissing ==
    IF doc = "D"
    THEN \/ D_FindBounds(lines).preface_start = None
         \/ D_FindBounds(lines).book1_start = None
         \/ D_FindBounds(lines).content_end = None
    ELSE IF doc = "M" THEN M_strip_header_footer(lines).exits
    ELSE IF doc = "S" THEN S_find_content_start(lines) = None
    ELSE doc = "L" /\ L_find_letter_regions(lines) = <<>>

\* C12: when an anchor is missing, the output is never written and the run
\* ends with a status other than zero.
C12_MissingAnchorStops ==
    AnchorMissing => ~written /\ (pc = "done" => exit_status = 1)

\* C13: in dry-run mode the output file is never written.
C13_DryRunNeverWrites == dry_run => ~written

\* A dry run of Letters has parsed a letter and has returned.
C13_Witness ==
    /\ dry_run /\ doc = "L" /\ pc = "done" /\ exit_status = 0
    /\ raw.raw_letters # <<>>

\* One of the sys.exit(1) calls that follow a search for an anchor is
\* taken: PREFACE or 'BOOK I' in Discourses, 'BOOK ONE' or 'THE END' in
\* Meditations, the header of chapter 1 in Shortness.
FatalAnchorError ==
    IF doc = "D"
    THEN \/ D_FindBounds(lines).preface_start = None
         \/ D_FindBounds(lines).book1_start = None
    ELSE IF doc = "M" THEN M_strip_header_footer(lines).exits
    ELSE doc = "S" /\ S_find_content_start(lines) = None

\* C14: a run that is no dry run and meets no fatal anchor error reaches
\* the write of the output, whatever validate has to report. Every run is
\* finite, so the run reaches the write exactly when it has written once it
\* is done.
C14_AlwaysWrites ==
    (pc = "done" /\ ~dry_run /\ ~FatalAnchorError) => written

-----------------------------------------------------------------------------
(* Properties: the lines of the raw sections (C15) *)

\* The lines of the raw sections of the run, one sequence for each raw
\* section, in the order the segmenters return them.
RawSectionLines ==
    [k \in 1..Len(raw.chapters) |-> raw.chapters[k].lines]
    \o [k \in 1..Len(raw.fragments) |-> raw.fragments[k].lines]
    \o [k \in 1..Len(raw.manual_sections) |-> raw.manual_sections[k].lines]
    \o [k \in 1..Len(raw.raw_letters) |-> raw.raw_letters[k].lines]
    \o [k \in 1..Len(raw.raw_chapters) |-> raw.raw_chapters[k].lines]
    \o [k \in 1..Len(raw.books) |-> raw.books[k][2]]

\* The places of the raw sections that hold the text v: <<section, line>>.
AccumulatedAt(v) ==
    UNION {{<<k, i>> : i \in {j \in 1..Len(RawSectionLines[k]) :
                                 Strip(RawSectionLines[k][j]) = v}} :
           k \in 1..Len(RawSectionLines)}

\* The lines of the input that hold the text v.
InputAt(v) == {i \in 1..Len(lines) : Strip(lines[i]) = v}

\* C15: every line of the input is accumulated into the lines of at most one
\* raw section: no text is held by the raw sections at more places than the
\* input has lines with that text.
C15_EachLineOnce ==
    \A i \in 1..Len(lines) :
        Cardinality(AccumulatedAt(Strip(lines[i])))
            <= Cardinality(InputAt(Strip(lines[i])))

-----------------------------------------------------------------------------
(* Properties: repeated headers and closed sections (C16, C17) *)

\* The keys the sections of a list hold.
HeldNumbers(secs) == {secs[j].number : j \in 1..Len(secs)}

\* Letters: a step of the loop on a header line whose number is held by the
\* open letter or by a letter of raw_letters closes the open letter and
\* opens a new one with that number.
RepeatedLetterOpens ==
    (/\ doc = "L" /\ pc = "parse" /\ idx < ps.regions[ps.r][2]
     /\ L_is_letter_header(lines[idx + 1]).ok
     /\ L_is_letter_header(lines[idx + 1]).num
            \in HeldNumbers(raw.raw_letters) \cup {ps.current_letter_num})
    => /\ ps'.current_letter_num = L_is_letter_header(lines[idx + 1]).num
       /\ ps'.current_lines = <<>>
       /\ ps.current_letter_num # None
            => raw'.raw_letters = Append(raw.raw_letters, L_RawLetter(ps))

\* Shortness: the same for a header line of a chapter 1..20.
RepeatedChapterOpens ==
    (/\ doc = "S" /\ pc = "parse" /\ idx < Len(lines)
     /\ ~S_RE_FOOTNOTES_HEADER(Strip(lines[idx + 1]))
     /\ S_RE_CHAPTER_HEADER(Strip(lines[idx + 1])).ok
     /\ S_RE_CHAPTER_HEADER(Strip(lines[idx + 1])).num
            \in (HeldNumbers(raw.raw_chapters) \cup {ps.current_num}) \cap 1..20)
    => /\ ps'.current_num = S_RE_CHAPTER_HEADER(Strip(lines[idx + 1])).num
       /\ ps'.current_lines = <<>>
       /\ ps.current_num # None
            => raw'.raw_chapters = Append(raw.raw_chapters, S_RawChapter(ps))

\* Discourses chapters: the same for a CHAPTER header read outside the
\* notes; the key is the pair of the book and the chapter.
RepeatedBookChapterOpens ==
    (/\ doc = "D" /\ pc = "parse" /\ idx < ps.content_end
     /\ ~ps.in_notes /\ ~D_is_noise_line(lines[idx + 1])
     /\ D_RE_CHAPTER_HEADER(Strip(lines[idx + 1])) # <<>>
     /\ <<ps.current_book, D_roman_to_int(D_RE_CHAPTER_HEADER(Strip(lines[idx + 1])))>>
            \in {<<raw.chapters[j].book_num, raw.chapters[j].chapter_num>> :
                    j \in 1..Len(raw.chapters)}
                \cup {<<ps.current_book, ps.current_chapter_num>>})
    => /\ ps'.current_chapter_num
            = D_roman_to_int(D_RE_CHAPTER_HEADER(Strip(lines[idx + 1])))
       /\ ps'.current_chapter_lines = <<>>
       /\ (ps.current_chapter_num # None /\ ps.current_book # None)
            => raw'.chapters = Append(raw.chapters, D_RawChapter(ps))

\* The state of the loop of parse_fragments before its first line.
D_FragStart ==
    [fragments |-> <<>>, current_num |-> NoneT, current_title |-> NoneT,
     current_lines |-> <<>>, awaiting_title |-> FALSE]

\* The state of the loop of parse_manual before its first line.
D_ManualStart == [sections |-> <<>>, current_num |-> None, current_lines |-> <<>>]

\* Where the loop of a part of Discourses ends.
D_PartEnd(ls, b) == IF b.end = None THEN Len(ls) ELSE b.end

\* Fragments: what parse_fragments returns when its loop stops before line i
\* and what it returns when it stops after it. A line with a fragment number
\* that a fragment before it holds adds a fragment with that number and no
\* lines.
RepeatedFragmentOpensAt(ls, b, i) ==
    (/\ ~D_is_noise_line(ls[i + 1])
     /\ D_RE_FRAGMENT_NUMBER(Strip(ls[i + 1]))
            \in HeldNumbers(D_FragLoop(ls, b.start, i, D_FragStart)))
    => /\ Len(D_FragLoop(ls, b.start, i + 1, D_FragStart))
            = Len(D_FragLoop(ls, b.start, i, D_FragStart)) + 1
       /\ D_FragLoop(ls, b.start, i + 1, D_FragStart)
            [Len(D_FragLoop(ls, b.start, i + 1, D_FragStart))]
            = [number |-> D_RE_FRAGMENT_NUMBER(Strip(ls[i + 1])),
               title |-> NoneT, lines |-> <<>>]

RepeatedFragmentOpensIn(ls, b) ==
    b.start # None =>
        \A i \in b.start..(D_PartEnd(ls, b) - 1) : RepeatedFragmentOpensAt(ls, b, i)

RepeatedFragmentOpens ==
    (doc = "D" /\ pc = "fragments" /\ pc' = "manual")
    => /\ raw'.fragments = D_parse_fragments(lines)
       /\ RepeatedFragmentOpensIn(lines, D_PartScan("fragments", lines, 0, None))

\* The Manual: line i holds a number of 1..53 that a section before it holds.
RepeatedManualAt(ls, b, i) ==
    /\ ~D_is_noise_line(ls[i + 1])
    /\ D_ManualNumber(D_RE_MANUAL_SECTION_NUMBER(Strip(ls[i + 1])))
            \in HeldNumbers(D_ManualLoop(ls, b.start, i, D_ManualStart)) \cap 1..53

\* The line adds a section with that number and no lines.
RepeatedManualOpensAt(ls, b, i) ==
    RepeatedManualAt(ls, b, i)
    => /\ Len(D_ManualLoop(ls, b.start, i + 1, D_ManualStart))
            = Len(D_ManualLoop(ls, b.start, i, D_ManualStart)) + 1
       /\ D_ManualLoop(ls, b.start, i + 1, D_ManualStart)
            [Len(D_ManualLoop(ls, b.start, i + 1, D_ManualStart))]
            = [number |-> D_ManualNumber(D_RE_MANUAL_SECTION_NUMBER(Strip(ls[i + 1]))),
               lines |-> <<>>]

\* The line adds no section: it is one more line of the last section.
RepeatedManualAbsorbedAt(ls, b, i) ==
    RepeatedManualAt(ls, b, i)
    => D_ManualLoop(ls, b.start, i + 1, D_ManualStart)
        = [D_ManualLoop(ls, b.start, i, D_ManualStart)
            EXCEPT ![Len(D_ManualLoop(ls, b.start, i, D_ManualStart))].lines =
                        Append(@, Strip(ls[i + 1]))]

RepeatedManualOpensIn(ls, b) ==
    b.start # None =>
        \A i \in b.start..(D_PartEnd(ls, b) - 1) : RepeatedManualOpensAt(ls, b, i)

RepeatedManualAbsorbedIn(ls, b) ==
    b.start # None =>
        \A i \in b.start..(D_PartEnd(ls, b) - 1) : RepeatedManualAbsorbedAt(ls, b, i)

RepeatedManualOpens ==
    (doc = "D" /\ pc = "manual" /\ pc' = "parsed")
    => /\ raw'.manual_sections = D_parse_manual(lines)
       /\ RepeatedManualOpensIn(lines, D_PartScan("manual", lines, 0, None))

RepeatedManualAbsorbed ==
    (doc = "D" /\ pc = "manual" /\ pc' = "parsed")
    => /\ raw'.manual_sections = D_parse_manual(lines)
       /\ RepeatedManualAbsorbedIn(lines, D_PartScan("manual", lines, 0, None))

\* C16 as stated: in every segmenter a header line whose key an earlier
\* section holds opens a new section with that key.
C16_RepeatedHeaderOpens ==
    [][/\ RepeatedLetterOpens /\ RepeatedChapterOpens /\ RepeatedBookChapterOpens
       /\ RepeatedFragmentOpens /\ RepeatedManualOpens]_vars

\* C16, amended: a repeated header opens a new section in Letters, in
\* Shortness, in the chapters of Discourses and in its fragments; in the
\* Manual a number that a section holds is a line of the open section.
C16_RepeatedHeaderOpensButManual ==
    [][/\ RepeatedLetterOpens /\ RepeatedChapterOpens /\ RepeatedBookChapterOpens
       /\ RepeatedFragmentOpens /\ RepeatedManualAbsorbed]_vars

\* Discourses has been parsed: the fragment number 1 was read twice and
\* makes two fragments, and the Manual's number 1, read again, is a line of
\* section 1.
C16_Witness ==
    /\ doc = "D" /\ pc = "parsed"
    /\ Len(raw.fragments) = 2
    /\ raw.fragments[1].number = raw.fragments[2].number
    /\ Len(raw.manual_sections) = 1
    /\ \E j \in 1..Len(raw.manual_sections[1].lines) :
          raw.manual_sections[1].lines[j] = <<"1">>

\* The sections of the list a are the first Len(a) sections of b, with the
\* same key, the same title and the same lines.
SectionsKept(a, b) ==
    /\ Len(a) <= Len(b)
    /\ \A j \in 1..Len(a) : b[j] = a[j]

\* The list without its last section: the sections that were appended
\* before the loop stopped, the last one being appended by the flush.
ClosedOf(secs) == IF secs = <<>> THEN <<>> ELSE SubSeq(secs, 1, Len(secs) - 1)

\* The fragments appended before line i are kept by line i.
FragmentsKeptIn(ls, b) ==
    b.start # None =>
        \A i \in b.start..(D_PartEnd(ls, b) - 1) :
            SectionsKept(ClosedOf(D_FragLoop(ls, b.start, i, D_FragStart)),
                         ClosedOf(D_FragLoop(ls, b.start, i + 1, D_FragStart)))

\* The sections of the Manual appended before line i are kept by line i.
ManualKeptIn(ls, b) ==
    b.start # None =>
        \A i \in b.start..(D_PartEnd(ls, b) - 1) :
            SectionsKept(ClosedOf(D_ManualLoop(ls, b.start, i, D_ManualStart)),
                         ClosedOf(D_ManualLoop(ls, b.start, i + 1, D_ManualStart)))

\* C17: a raw section that has been appended to the list of its segmenter
\* keeps its key, its title and its lines at every later step.
C17_ClosedSectionsKept ==
    [][/\ SectionsKept(raw.chapters, raw'.chapters)
       /\ SectionsKept(raw.raw_letters, raw'.raw_letters)
       /\ SectionsKept(raw.raw_chapters, raw'.raw_chapters)
       /\ SectionsKept(raw.books, raw'.books)
       /\ (doc = "D" /\ pc = "fragments" /\ pc' = "manual")
            => /\ raw'.fragments = D_parse_fragments(lines)
               /\ FragmentsKeptIn(lines, D_PartScan("fragments", lines, 0, None))
       /\ (doc = "D" /\ pc = "manual" /\ pc' = "parsed")
            => /\ raw'.manual_sections = D_parse_manual(lines)
               /\ ManualKeptIn(lines, D_PartScan("manual", lines, 0, None))]_vars

\* A chapter of Discourses has been closed, a second one with the same
\* number has been opened after it and has received a line.
C17_Witness ==
    /\ doc = "D" /\ pc = "parse"
    /\ Len(raw.chapters) = 1
    /\ raw.chapters[1].chapter_num = ps.current_chapter_num
    /\ raw.chapters[1].lines # <<>>
    /\ ps.current_chapter_lines # <<>>

-----------------------------------------------------------------------------
(* Properties: the order of the sections (C18) *)

\* Whether a[i..] can be read off b[j..] from left to right. A key of b
\* answers for one key of a (step = 1) or for a run of equal keys of a
\* (step = 0).
RECURSIVE FollowsFrom(_, _, _, _, _)
FollowsFrom(a, i, b, j, step) ==
    IF i > Len(a) THEN TRUE
    ELSE IF j > Len(b) THEN FALSE
    ELSE IF a[i] = b[j] THEN FollowsFrom(a, i + 1, b, j + step, step)
    ELSE FollowsFrom(a, i, b, j + 1, step)

\* The keys a come in the order of the header lines whose keys are b.
InHeaderOrder(a, b) == FollowsFrom(a, 1, b, 1, 1)

\* The same, where one header line stands for all the sections after it.
InPartOrder(a, b) == FollowsFrom(a, 1, b, 1, 0)

\* The header lines of the source, in the order of the source.
L_HeaderLines == SelectSeq(lines, LAMBDA l : L_is_letter_header(l).ok)

S_HeaderLines ==
    SelectSeq(lines, LAMBDA l : /\ S_RE_CHAPTER_HEADER(Strip(l)).ok
                                /\ S_RE_CHAPTER_HEADER(Strip(l)).num \in 1..20)

M_HeaderLines == SelectSeq(lines, LAMBDA l : M_RE_BOOK_HEADER(Strip(l)) # <<>>)

D_ChapterLines == SelectSeq(lines, LAMBDA l : D_RE_CHAPTER_HEADER(Strip(l)) # <<>>)

D_FragmentLines ==
    SelectSeq(lines, LAMBDA l : \/ D_RE_FRAGMENT_NUMBER(Strip(l)) # <<>>
                                \/ D_RE_FRAGMENT_1_ROMAN(Strip(l)))

D_ManualLines ==
    SelectSeq(lines, LAMBDA l : D_RE_MANUAL_SECTION_NUMBER(Strip(l)) # <<>>)

\* The part of Discourses a line is the header of: the preface, the books
\* with their chapters, the fragments, the Manual; "none" for other lines.
D_PartOfLine(l) ==
    IF D_RE_PREFACE(Strip(l)) THEN "preface"
    ELSE IF D_RE_BOOK_HEADER(Strip(l)) # <<>> THEN "chapters"
    ELSE IF D_RE_FRAGMENTS_HEADER(Strip(l)) THEN "fragments"
    ELSE IF D_RE_MANUAL_HEADER(Strip(l)) THEN "manual"
    ELSE "none"

D_PartLines == SelectSeq(lines, LAMBDA l : D_PartOfLine(l) # "none")

\* The part a section of Discourses belongs to.
D_PartOfSection(s) ==
    IF s.id = D_LIT_ID_PREFACE THEN "preface"
    ELSE IF StartsWith(s.id, D_LIT_ID_FRAG) THEN "fragments"
    ELSE IF StartsWith(s.id, D_LIT_ID_MANUAL) THEN "manual"
    ELSE "chapters"

D_SectionsOf(part) == SelectSeq(sections, LAMBDA s : D_PartOfSection(s) = part)

\* The sections of Letters, of Shortness and of Meditations come in the
\* order of their header lines.
LettersInSourceOrder ==
    InHeaderOrder([k \in 1..Len(sections) |-> sections[k].letter_number],
                  [k \in 1..Len(L_HeaderLines) |->
                      L_is_letter_header(L_HeaderLines[k]).num])

ShortnessInSourceOrder ==
    InHeaderOrder([k \in 1..Len(sections) |-> sections[k].chapter],
                  [k \in 1..Len(S_HeaderLines) |->
                      S_RE_CHAPTER_HEADER(Strip(S_HeaderLines[k])).num])

MeditationsInSourceOrder ==
    InPartOrder([k \in 1..Len(sections) |-> sections[k].book],
                [k \in 1..Len(M_HeaderLines) |->
                    M_WORD_TO_NUM(M_RE_BOOK_HEADER(Strip(M_HeaderLines[k])))])

\* The sections of one part of Discourses come in the order of their header
\* lines.
DiscoursesPartsInSourceOrder ==
    /\ InHeaderOrder([k \in 1..Len(D_SectionsOf("chapters")) |->
                         D_SectionsOf("chapters")[k].chapter],
                     [k \in 1..Len(D_ChapterLines) |->
                         D_roman_to_int(D_RE_CHAPTER_HEADER(Strip(D_ChapterLines[k])))])
    /\ InHeaderOrder([k \in 1..Len(D_SectionsOf("fragments")) |->
                         D_SectionsOf("fragments")[k].id],
                     [k \in 1..Len(D_FragmentLines) |->
                         D_LIT_ID_FRAG \o <<"_">> \o
                         (IF D_RE_FRAGMENT_NUMBER(Strip(D_FragmentLines[k])) # <<>>
                          THEN D_RE_FRAGMENT_NUMBER(Strip(D_FragmentLines[k]))
                          ELSE <<"1">>)])
    /\ InHeaderOrder([k \in 1..Len(D_SectionsOf("manual")) |->
                         D_SectionsOf("manual")[k].chapter],
                     [k \in 1..Len(D_ManualLines) |->
                         D_ManualNumber(D_RE_MANUAL_SECTION_NUMBER(Strip(D_ManualLines[k])))])

\* The parts of Discourses come in the order of their headers: PREFACE, the
\* BOOK headers, FRAGMENTS, the header of the Manual.
DiscoursesInSourceOrder ==
    InPartOrder([k \in 1..Len(sections) |-> D_PartOfSection(sections[k])],
                [k \in 1..Len(D_PartLines) |-> D_PartOfLine(D_PartLines[k])])

\* C18: the sections of the output come in the order of their header lines
\* in the source; in Discourses the preface, the chapters, the fragments and
\* the sections of the Manual come in the order of the source too.
C18_SourceOrder ==
    pc \in {"built", "validated", "done"} =>
        /\ doc = "L" => LettersInSourceOrder
        /\ doc = "S" => ShortnessInSourceOrder
        /\ doc = "M" => MeditationsInSourceOrder
        /\ doc = "D" => DiscoursesPartsInSourceOrder /\ DiscoursesInSourceOrder

-----------------------------------------------------------------------------
(* Properties: the fields of a section (C19) *)

\* The field names of the records that build_sections of a script makes.
SectionFields(d) ==
    IF d = "L"
    THEN DOMAIN L_Section([number |-> 1, title |-> NoneT, lines |-> <<>>], LINE_WORD)
    ELSE IF d = "S"
    THEN DOMAIN S_Section([number |-> 1, first_line_text |-> NoneT, lines |-> <<>>],
                          LINE_WORD)
    ELSE IF d = "M" THEN DOMAIN M_Section(1, 1, LINE_WORD)
    ELSE DOMAIN D_PrefaceSection(LINE_WORD)

\* C19: every section of a run has the field names of the sections of each
\* of the four scripts, so that the four outputs share one schema.
C19_OneSchema ==
    \A k \in 1..Len(sections) : \A d \in Docs :
        DOMAIN sections[k] = SectionFields(d)

-----------------------------------------------------------------------------
(* Runs on inputs with a suppressed region: an open section, the line that *)
(* starts the region, and lines after it                                   *)

\* 'Book I. Notes.'
D_LINE_NOTES_HEADER ==
    <<"B", "o", "o", "k", " ", "I", ".", " ", "N", "o", "t", "e", "s", ".">>

\* The lines that start the notes of Discourses.
D_Openers == {D_LINE_NOTES_HEADER, D_LIT_THE_DISCOURSES, D_LINE_NOTE}

\* What a script reads up to the start of the region.
SuppressedPrefix(d) ==
    IF d = "D"
    THEN {<<D_LIT_PREFACE, D_LIT_BOOK_I, D_LINE_CHAPTER_II, D_LINE_TITLE,
            LINE_WORD, opener>> : opener \in D_Openers}
    ELSE IF d = "S" THEN {<<S_LINE_HEADER_1_TEXT, LINE_WORD, S_LINE_FOOTNOTES>>}
    ELSE {<<L_LIT_VOLUME_HEADER, L_LINE_HEADER_I, LINE_WORD, LINE_FOOTNOTE>>}

\* The lines that follow the start of the region.
SuppressedCatalogue(d) ==
    IF d = "D"
    THEN {LINE_WORD, D_LINE_CONTENT, D_LINE_CHAPTER_II, D_LINE_BOOK_II}
    ELSE IF d = "S" THEN {LINE_WORD, LINE_BLANK, LINE_FOOTNOTE, S_LINE_HEADER_2}
    ELSE {LINE_WORD, LINE_BLANK, LINE_CONTENT, L_LINE_HEADER_II}

InitSuppressed ==
    /\ PureIdle
    /\ doc \in {"D", "L", "S"}
    /\ dry_run = FALSE
    /\ \E prefix \in SuppressedPrefix(doc),
          body \in SeqsUpTo(SuppressedCatalogue(doc), MaxLines) :
            lines = prefix \o body
    /\ pc = "start"
    /\ idx = 0
    /\ ps = NoLocals
    /\ raw = EmptyRaw
    /\ sections = <<>>
    /\ report = EmptyReport
    /\ written = FALSE
    /\ exit_status = None

SpecSuppressed == InitSuppressed /\ [][NextNumbered]_vars

-----------------------------------------------------------------------------
(* Properties: suppressed regions (C20) *)

\* A line that starts the notes of Discourses.
D_OpensNotes(stripped) ==
    \/ D_RE_NOTES_HEADER(stripped)
    \/ D_RE_DISCOURSES_SEPARATOR(stripped)
    \/ D_RE_NOTE_LINE(stripped)

\* Line i (counted from 0) of a scan that starts at line from lies in the
\* notes: a line at or before it starts them and no BOOK header follows that
\* line up to line i.
D_InSuppressed(ls, from, i) ==
    \E j \in from..i :
        /\ D_OpensNotes(Strip(ls[j + 1]))
        /\ \A k \in (j + 1)..i : D_RE_BOOK_HEADER(Strip(ls[k + 1])) = <<>>

\* A header line that parse_chapters accepts.
S_AcceptedHeader(stripped) ==
    /\ S_RE_CHAPTER_HEADER(stripped).ok
    /\ S_RE_CHAPTER_HEADER(stripped).num \in 1..20

\* Line i lies in the footnotes of Shortness: a Footnotes header at or
\* before it, and no accepted chapter header after that header up to line i.
S_InSuppressed(ls, from, i) ==
    \E j \in from..i :
        /\ S_RE_FOOTNOTES_HEADER(Strip(ls[j + 1]))
        /\ \A k \in (j + 1)..i : ~S_AcceptedHeader(Strip(ls[k + 1]))

\* The lines of a letter before its first footnote line.
L_BeforeFootnotes(ls) ==
    SubSeq(ls, 1, Min(Len(ls) + 1,
                      CHOOSE f \in 1..(Len(ls) + 1) :
                          /\ f <= Len(ls) => RE_FOOTNOTE_LINE(Strip(ls[f]))
                          /\ \A g \in 1..(f - 1) : ~RE_FOOTNOTE_LINE(Strip(ls[g]))) - 1)

\* A line of the notes read by the loop of parse_discourses is added to no
\* chapter and gives no title.
NotesSuppressed ==
    (/\ doc = "D" /\ pc = "parse" /\ idx < ps.content_end
     /\ D_InSuppressed(lines, ps.book1_start, idx))
    => /\ raw'.chapters = raw.chapters
       /\ ps'.current_chapter_lines = ps.current_chapter_lines
       /\ ps'.current_chapter_title = ps.current_chapter_title

\* A line of the footnotes read by the loop of parse_chapters is added to no
\* chapter.
FootnotesSuppressed ==
    (/\ doc = "S" /\ pc = "parse" /\ idx < Len(lines)
     /\ S_InSuppressed(lines, S_find_content_start(lines), idx))
    => /\ raw'.raw_chapters = raw.raw_chapters
       /\ ps'.current_lines = ps.current_lines
       /\ ps'.current_first_line_text = ps.current_first_line_text

\* The text of a letter is the text of its lines before the first footnote
\* line.
LetterFootnotesSuppressed ==
    (doc = "L" /\ pc = "parsed" /\ pc' = "built")
    => /\ sections' = L_build_sections(raw.raw_letters)
       /\ \A k \in 1..Len(raw.raw_letters) :
             L_clean_letter_text(raw.raw_letters[k].lines, raw.raw_letters[k].number)
               = L_clean_letter_text(L_BeforeFootnotes(raw.raw_letters[k].lines),
                                     raw.raw_letters[k].number)

\* C20: no line of a suppressed region contributes to the text of a section:
\* in the chapters of Discourses the lines from a notes header, a separator
\* or a note line up to the next BOOK header, in Shortness the lines from a
\* Footnotes header up to the next accepted chapter header, in Letters the
\* lines of a letter from its first footnote line on.
C20_SuppressedRegions ==
    [][NotesSuppressed /\ FootnotesSuppressed /\ LetterFootnotesSuppressed]_vars

\* A chapter of Discourses holds a line, and the line just read lies in the
\* notes.
C20_Witness ==
    /\ doc = "D" /\ pc = "parse" /\ idx > ps.book1_start
    /\ D_InSuppressed(lines, ps.book1_start, idx - 1)
    /\ ~D_OpensNotes(Strip(lines[idx]))
    /\ ps.current_chapter_lines # <<>>

-----------------------------------------------------------------------------
(* Properties: the report of validate (C21) *)

\* The key of a line that has the shape of a section header: the number of
\* the letter, of the chapter (Discourses, Shortness) or of the book
\* (Meditations); None for any other line.
HeaderShapeKey(d, l) ==
    IF d = "L"
    THEN (IF L_is_letter_header(l).ok THEN L_is_letter_header(l).num ELSE None)
    ELSE IF d = "S"
    THEN (IF S_AcceptedHeader(Strip(l)) THEN S_RE_CHAPTER_HEADER(Strip(l)).num
          ELSE None)
    ELSE IF d = "M"
    THEN (IF M_RE_BOOK_HEADER(Strip(l)) # <<>>
          THEN M_WORD_TO_NUM(M_RE_BOOK_HEADER(Strip(l))) ELSE None)
    ELSE (IF D_RE_CHAPTER_HEADER(Strip(l)) # <<>>
          THEN D_roman_to_int(D_RE_CHAPTER_HEADER(Strip(l))) ELSE None)

\* Some emitted section holds the key.
KeyEmitted(d, key) ==
    \E k \in 1..Len(sections) :
        IF d = "L" THEN sections[k].letter_number = key
        ELSE IF d = "M" THEN sections[k].book = key
        ELSE IF d = "S" THEN sections[k].chapter = key
        ELSE sections[k].chapter = key /\ StartsWith(sections[k].id, D_LIT_ID_BOOK)

\* The numbers (from 1) of the lines that validate has reported as unparsed.
ReportedUnparsed == {report.unparsed[k] : k \in 1..Len(report.unparsed)}

\* C21: once validate has run, every line of the input that has the shape
\* of a section header and whose key no emitted section holds is among the
\* lines reported as unparsed.
C21_UnparsedReported ==
    (pc \in {"validated", "done"} /\ ~dry_run /\ sections # <<>>)
    => \A i \in 1..Len(lines) :
          (HeaderShapeKey(doc, lines[i]) # None
              /\ ~KeyEmitted(doc, HeaderShapeKey(doc, lines[i])))
          => i \in ReportedUnparsed

-----------------------------------------------------------------------------
(* Properties: empty sections (C22) *)

\* The normalized texts of the raw sections of the books from book k on.
RECURSIVE M_RawTexts(_, _)
M_RawTexts(books, k) ==
    IF k > Len(books) THEN <<>>
    ELSE [j \in 1..Len(M_split_book_into_sections(books[k][1], books[k][2])) |->
             M_clean_text(M_split_book_into_sections(books[k][1], books[k][2])[j])]
         \o M_RawTexts(books, k + 1)

\* The normalized texts of the raw sections of the run, in the order of
\* build_sections; the preface of Discourses comes first.
RawTexts ==
    IF doc = "D"
    THEN <<raw.preface_text>>
         \o [k \in 1..Len(raw.chapters) |-> D_TextOf(raw.chapters[k].lines)]
         \o [k \in 1..Len(raw.fragments) |-> D_TextOf(raw.fragments[k].lines)]
         \o [k \in 1..Len(raw.manual_sections) |->
                D_TextOf(raw.manual_sections[k].lines)]
    ELSE IF doc = "L"
    THEN [k \in 1..Len(raw.raw_letters) |->
             L_clean_letter_text(raw.raw_letters[k].lines, raw.raw_letters[k].number)]
    ELSE IF doc = "S"
    THEN [k \in 1..Len(raw.raw_chapters) |->
             S_clean_chapter_text(raw.raw_chapters[k].first_line_text,
                                  raw.raw_chapters[k].lines)]
    ELSE M_RawTexts(raw.books, 1)

\* Some raw section of the run has an empty normalized text.
SomeRawEmpty == \E k \in 1..Len(RawTexts) : RawTexts[k] = <<>>

\* Every emitted section has a text and at least one word, and the emitted
\* sections are the raw sections with a text, all of them and in order.
EmptyDropped ==
    /\ \A k \in 1..Len(sections) :
          sections[k].text # <<>> /\ sections[k].word_count >= 1
    /\ [k \in 1..Len(sections) |-> sections[k].text]
          = SelectSeq(RawTexts, LAMBDA t : t # <<>>)

\* C22: a raw section whose normalized text is empty is dropped and the
\* others are emitted, each with a text and a word count of 1 or more; the
\* run does not stop for it.
C22_EmptyDroppedRunGoesOn ==
    /\ pc \in {"built", "validated"} => EmptyDropped
    /\ (pc = "done" /\ ~dry_run /\ ~FatalAnchorError)
          => EmptyDropped /\ (SomeRawEmpty => exit_status = 0)

-----------------------------------------------------------------------------
(* Properties: every opened section is appended once (C23) *)

\* The lines (counted from 0) of the input at which a segmenter accepts a
\* header, told from the input alone.
L_AcceptedIn(regions) ==
    {i \in 0..(Len(lines) - 1) :
        /\ L_is_letter_header(lines[i + 1]).ok
        /\ \E r \in 1..Len(regions) : regions[r][1] <= i /\ i < regions[r][2]}

L_AcceptedAt == L_AcceptedIn(L_find_letter_regions(lines))

S_AcceptedAt ==
    {i \in 0..(Len(lines) - 1) :
        /\ S_find_content_start(lines) # None
        /\ S_find_content_start(lines) <= i
        /\ ~S_RE_FOOTNOTES_HEADER(Strip(lines[i + 1]))
        /\ S_AcceptedHeader(Strip(lines[i + 1]))}

D_AcceptedLine(book1_start, i) ==
    /\ ~D_is_noise_line(lines[i + 1])
    /\ D_RE_CHAPTER_HEADER(Strip(lines[i + 1])) # <<>>
    /\ D_RE_BOOK_HEADER(Strip(lines[i + 1])) = <<>>
    /\ ~D_InSuppressed(lines, book1_start, i)

D_AcceptedAt(book1_start, content_end) ==
    {i \in book1_start..(content_end - 1) : D_AcceptedLine(book1_start, i)}

\* A step of parse_letters: the open letter is appended when a header is
\* read and at the end of a region, and at no other step; at the end there
\* are as many letters as accepted headers.
LettersAppendedOnce ==
    (doc = "L" /\ pc = "parse")
    => /\ raw'.raw_letters =
            IF /\ ps.current_letter_num # None
               /\ \/ idx >= ps.regions[ps.r][2]
                  \/ L_is_letter_header(lines[idx + 1]).ok
            THEN Append(raw.raw_letters, L_RawLetter(ps))
            ELSE raw.raw_letters
       /\ pc' = "parsed" => Len(raw'.raw_letters) = Cardinality(L_AcceptedAt)

\* A step of parse_chapters of Shortness.
ChaptersAppendedOnce ==
    (doc = "S" /\ pc = "parse")
    => /\ raw'.raw_chapters =
            IF /\ ps.current_num # None
               /\ \/ idx >= Len(lines)
                  \/ /\ ~S_RE_FOOTNOTES_HEADER(Strip(lines[idx + 1]))
                     /\ S_AcceptedHeader(Strip(lines[idx + 1]))
            THEN Append(raw.raw_chapters, S_RawChapter(ps))
            ELSE raw.raw_chapters
       /\ pc' = "parsed" => Len(raw'.raw_chapters) = Cardinality(S_AcceptedAt)

\* A step of the chapter loop of parse_discourses: the open chapter is
\* appended at a CHAPTER header read outside the notes, at a BOOK header and
\* at the end.
BookChaptersAppendedOnce ==
    (doc = "D" /\ pc = "parse")
    => /\ raw'.chapters =
            IF /\ ps.current_chapter_num # None
               /\ \/ idx >= ps.content_end
                  \/ D_AcceptedLine(ps.book1_start, idx)
                  \/ /\ ~D_is_noise_line(lines[idx + 1])
                     /\ ~D_OpensNotes(Strip(lines[idx + 1]))
                     /\ D_RE_BOOK_HEADER(Strip(lines[idx + 1])) # <<>>
            THEN Append(raw.chapters, D_RawChapter(ps))
            ELSE raw.chapters
       /\ pc' = "fragments"
            => Len(raw'.chapters)
                 = Cardinality(D_AcceptedAt(ps.book1_start, ps.content_end))

\* parse_fragments stopped before line i and stopped after it: when line i
\* is an accepted header, the fragments are those of before and a new one;
\* otherwise there are as many as before.
FragmentAppendedOnceAt(ls, b, i, before, after) ==
    IF /\ ~D_is_noise_line(ls[i + 1])
       /\ \/ D_RE_FRAGMENT_NUMBER(Strip(ls[i + 1])) # <<>>
          \/ before = <<>> /\ D_RE_FRAGMENT_1_ROMAN(Strip(ls[i + 1]))
    THEN /\ Len(after) = Len(before) + 1
         /\ SectionsKept(before, after)
    ELSE Len(after) = Len(before)

FragmentsAppendedOnceIn(ls, b) ==
    b.start # None =>
        \A i \in b.start..(D_PartEnd(ls, b) - 1) :
            FragmentAppendedOnceAt(ls, b, i,
                D_FragLoop(ls, b.start, i, D_FragStart),
                D_FragLoop(ls, b.start, i + 1, D_FragStart))

\* The same for parse_manual, where a number of 1..53 is accepted when it
\* is the first or greater than the number of the open section.
ManualAppendedOnceAt(ls, b, i, before, after, num) ==
    IF /\ ~D_is_noise_line(ls[i + 1])
       /\ num # None /\ 1 <= num /\ num <= 53
       /\ (before = <<>> \/ num > before[Len(before)].number)
    THEN /\ Len(after) = Len(before) + 1
         /\ SectionsKept(before, after)
    ELSE Len(after) = Len(before)

ManualAppendedOnceIn(ls, b) ==
    b.start # None =>
        \A i \in b.start..(D_PartEnd(ls, b) - 1) :
            ManualAppendedOnceAt(ls, b, i,
                D_ManualLoop(ls, b.start, i, D_ManualStart),
                D_ManualLoop(ls, b.start, i + 1, D_ManualStart),
                D_ManualNumber(D_RE_MANUAL_SECTION_NUMBER(Strip(ls[i + 1]))))

\* The fragments and the sections of the Manual as they are returned.
PartsAppendedOnce ==
    /\ (doc = "D" /\ pc = "manual")
          => /\ raw.fragments = D_parse_fragments(lines)
             /\ FragmentsAppendedOnceIn(lines, D_PartScan("fragments", lines, 0, None))
    /\ (doc = "D" /\ pc = "parsed")
          => /\ raw.manual_sections = D_parse_manual(lines)
             /\ ManualAppendedOnceIn(lines, D_PartScan("manual", lines, 0, None))

\* C23: in every segmenter a raw section opened by an accepted header is
\* appended to the list exactly once, at the next accepted header or higher
\* boundary or at the end of the input: none is lost, none is appended
\* twice.
C23_AppendedOnce ==
    /\ [][LettersAppendedOnce /\ ChaptersAppendedOnce
             /\ BookChaptersAppendedOnce]_vars
    /\ []PartsAppendedOnce

\* Letters has been parsed: one letter was closed by the header of the next
\* and the last one by the end of the region.
C23_Witness ==
    /\ doc = "L" /\ pc = "parsed"
    /\ Len(raw.raw_letters) = 2
    /\ Cardinality(L_AcceptedAt) = 2

-----------------------------------------------------------------------------
(* Runs of the Discourses script on inputs with page markers, running     *)
(* headers, blank lines and numbers out of range                           *)

\* ' [p. 2]'
D_LINE_PAGE ==
    <<" ", "[", "p", ".", " ", "2", "]">>

\* '54'
D_LINE_NUMBER_54 ==
    <<"5", "4">>

\* What the input starts with: the anchors; a chapter that awaits its
\* title; a chapter with its title and a line; a chapter followed by a note
\* line; a fragment that awaits its title; the header of the Manual.
MarkedSeeds ==
    {<<D_LIT_PREFACE, D_LIT_BOOK_I>>,
     <<D_LIT_PREFACE, D_LIT_BOOK_I, D_LINE_CHAPTER_II>>,
     <<D_LIT_PREFACE, D_LIT_BOOK_I, D_LINE_CHAPTER_II, D_LINE_TITLE, LINE_WORD>>,
     <<D_LIT_PREFACE, D_LIT_BOOK_I, D_LINE_CHAPTER_II, D_LINE_TITLE, D_LINE_NOTE>>,
     <<D_LIT_PREFACE, D_LIT_BOOK_I, D_LIT_FRAGMENTS, D_LINE_NUMBER>>,
     <<D_LIT_PREFACE, D_LIT_BOOK_I, D_LIT_MANUAL>>}

MarkedCatalogue ==
    {D_LINE_PAGE, D_LIT_SACRED, LINE_BLANK, LINE_WORD, D_LINE_TITLE,
     D_LINE_CHAPTER_II, D_LINE_BOOK_II, D_LINE_NUMBER, D_LINE_NUMBER_54}

InitMarked ==
    /\ PureIdle
    /\ doc = "D"
    /\ dry_run = FALSE
    /\ \E seed \in MarkedSeeds, body \in SeqsUpTo(MarkedCatalogue, MaxLines) :
            lines = seed \o body
    /\ pc = "start"
    /\ idx = 0
    /\ ps = NoLocals
    /\ raw = EmptyRaw
    /\ sections = <<>>
    /\ report = EmptyReport
    /\ written = FALSE
    /\ exit_status = None

NextMarked ==
    \/ D_ParseStart
    \/ D_Line
    \/ D_ChaptersEnd
    \/ D_Fragments
    \/ D_Manual
    \/ BuildSections
    \/ Validate
    \/ WriteOutput

SpecMarked == InitMarked /\ [][NextMarked]_vars

-----------------------------------------------------------------------------
(* Properties: noise lines of Discourses (C24) *)

\* A page marker or a running header of sacred-texts.
NoiseLine(line) ==
    D_RE_PAGE_MARKER(Strip(line)) \/ D_RE_SACRED_TEXTS_HEADER(Strip(line))

IsNoiseText(t) == t # NoneT /\ NoiseLine(t)

\* The locals of parse_fragments before line i.
RECURSIVE D_FragLocalsAt(_, _, _, _)
D_FragLocalsAt(ls, idx0, i, f) ==
    IF idx0 >= i THEN f
    ELSE D_FragLocalsAt(ls, idx0 + 1, i,
             D_FragLine(f, ls[idx0 + 1], Strip(ls[idx0 + 1]),
                        D_RE_FRAGMENT_NUMBER(Strip(ls[idx0 + 1]))))

\* The locals of parse_manual before line i.
RECURSIVE D_ManualLocalsAt(_, _, _, _)
D_ManualLocalsAt(ls, idx0, i, m) ==
    IF idx0 >= i THEN m
    ELSE D_ManualLocalsAt(ls, idx0 + 1, i,
             D_ManualLine(m, ls[idx0 + 1], Strip(ls[idx0 + 1]),
                 D_ManualNumber(D_RE_MANUAL_SECTION_NUMBER(Strip(ls[idx0 + 1])))))

\* No title and no line of a raw section is a noise line.
NoNoiseRecorded ==
    /\ \A k \in 1..Len(raw.chapters) :
          /\ ~IsNoiseText(raw.chapters[k].chapter_title)
          /\ \A j \in 1..Len(raw.chapters[k].lines) :
                ~NoiseLine(raw.chapters[k].lines[j])
    /\ \A k \in 1..Len(raw.fragments) :
          /\ ~IsNoiseText(raw.fragments[k].title)
          /\ \A j \in 1..Len(raw.fragments[k].lines) :
                ~NoiseLine(raw.fragments[k].lines[j])
    /\ \A k \in 1..Len(raw.manual_sections) :
          \A j \in 1..Len(raw.manual_sections[k].lines) :
                ~NoiseLine(raw.manual_sections[k].lines[j])

\* A noise line read by the chapter loop leaves the locals and the chapters
\* as they are.
NoiseSkippedByChapters ==
    (doc = "D" /\ pc = "parse" /\ idx < ps.content_end
        /\ NoiseLine(lines[idx + 1]))
    => ps' = ps /\ raw' = raw /\ idx' = idx + 1

\* A noise line of the fragments leaves the locals of parse_fragments as
\* they are; the same for the Manual.
NoiseSkippedIn(ls, fb, mb) ==
    /\ fb.start # None =>
          \A i \in fb.start..(D_PartEnd(ls, fb) - 1) :
              NoiseLine(ls[i + 1])
              => D_FragLocalsAt(ls, fb.start, i + 1, D_FragStart)
                    = D_FragLocalsAt(ls, fb.start, i, D_FragStart)
    /\ mb.start # None =>
          \A i \in mb.start..(D_PartEnd(ls, mb) - 1) :
              NoiseLine(ls[i + 1])
              => D_ManualLocalsAt(ls, mb.start, i + 1, D_ManualStart)
                    = D_ManualLocalsAt(ls, mb.start, i, D_ManualStart)

NoiseSkippedByParts ==
    (doc = "D" /\ pc = "fragments")
    => NoiseSkippedIn(lines, D_PartScan("fragments", lines, 0, None),
                      D_PartScan("manual", lines, 0, None))

\* C24: in Discourses a page marker or running header is discarded in every
\* parser state: it is never recorded as a title, never appended to the
\* lines of a section, and leaves the awaiting-title flag, the notes flag
\* and the open section unchanged.
C24_NoiseDiscarded ==
    /\ [][NoiseSkippedByChapters]_vars
    /\ []NoiseSkippedByParts
    /\ []NoNoiseRecorded

\* A noise line has been read while a chapter awaited its title, and the
\* line after it has become the title.
C24_Witness ==
    /\ doc = "D" /\ pc = "parsed"
    /\ Len(lines) >= 5
    /\ lines[3] = D_LINE_CHAPTER_II
    /\ NoiseLine(lines[4])
    /\ raw.chapters # <<>>
    /\ raw.chapters[1].chapter_title = Strip(lines[5])

-----------------------------------------------------------------------------
(* Properties: numbers that parse_manual does not accept (C25) *)

\* Line i of the Manual is a bare number that is outside 1..53 or not
\* greater than the number of the open section m: no section is opened,
\* and the line is content of the open section, if there is one.
RefusedNumberAt(ls, i, m, after, num) ==
    (/\ ~NoiseLine(ls[i + 1])
     /\ num # None
     /\ \/ num < 1 \/ num > 53
        \/ m.current_num # None /\ num <= m.current_num)
    => /\ after.sections = m.sections
       /\ after.current_num = m.current_num
       /\ after.current_lines =
             IF m.current_num # None
             THEN Append(m.current_lines, Strip(ls[i + 1]))
             ELSE m.current_lines

RefusedNumbersIn(ls, b) ==
    b.start # None =>
        \A i \in b.start..(D_PartEnd(ls, b) - 1) :
            RefusedNumberAt(ls, i,
                D_ManualLocalsAt(ls, b.start, i, D_ManualStart),
                D_ManualLocalsAt(ls, b.start, i + 1, D_ManualStart),
                D_ManualNumber(D_RE_MANUAL_SECTION_NUMBER(Strip(ls[i + 1]))))

\* The numbers of the sections of the Manual are in 1..53 and increase.
ManualNumbersAccepted(secs) ==
    /\ \A k \in 1..Len(secs) : 1 <= secs[k].number /\ secs[k].number <= 53
    /\ \A k \in 1..(Len(secs) - 1) : secs[k].number < secs[k + 1].number

\* C25: in parse_manual a bare-number line whose number is outside 1..53
\* or is not greater than the last accepted number opens no section; it is
\* appended as content to the open section, or ignored when none is open.
C25_RefusedNumbers ==
    (doc = "D" /\ pc \in {"parsed", "built", "validated", "done"})
    => /\ raw.manual_sections = D_parse_manual(lines)
       /\ RefusedNumbersIn(lines, D_PartScan("manual", lines, 0, None))
       /\ ManualNumbersAccepted(raw.manual_sections)

\* The Manual has one section, whose lines hold the refused numbers '54'
\* and '1'.
C25_Witness ==
    /\ doc = "D" /\ pc = "parsed"
    /\ Len(raw.manual_sections) = 1
    /\ raw.manual_sections[1].number = 1
    /\ raw.manual_sections[1].lines = <<D_LINE_NUMBER_54, D_LINE_NUMBER>>

-----------------------------------------------------------------------------
(* Properties: the title of a chapter of Discourses (C26) *)

\* A line at which the chapter loop does something else than take a title
\* or a content line: a header or a notes marker.
D_HeaderOrMarker(line) ==
    \/ D_OpensNotes(Strip(line))
    \/ D_RE_BOOK_HEADER(Strip(line)) # <<>>
    \/ D_RE_CHAPTER_HEADER(Strip(line)) # <<>>

\* The first line after line h, before content_end, that is neither blank
\* nor noise; None when there is none.
RECURSIVE D_FirstTextAfter(_, _, _)
D_FirstTextAfter(ls, h, content_end) ==
    IF h + 1 >= content_end THEN None
    ELSE IF ~NoiseLine(ls[h + 2]) /\ Strip(ls[h + 2]) # <<>> THEN h + 1
    ELSE D_FirstTextAfter(ls, h + 1, content_end)

\* The title that the chapter opened at line h is to have.
D_TitleExpected(ls, t) ==
    IF t = None THEN NoneT
    ELSE IF D_HeaderOrMarker(ls[t + 1]) THEN NoneT
    ELSE Strip(ls[t + 1])

\* The k-th line at which a CHAPTER header is accepted.
D_NthAccepted(A, k) ==
    CHOOSE i \in A : Cardinality({j \in A : j < i}) = k - 1

\* A step of the chapter loop while the title is awaited, on a line that is
\* neither noise nor a header nor a notes marker: a blank line changes
\* nothing, another line becomes the title and no content.
TitleTaken ==
    (/\ doc = "D" /\ pc = "parse" /\ idx < ps.content_end
     /\ ps.awaiting_title /\ ~ps.in_notes
     /\ ~NoiseLine(lines[idx + 1]) /\ ~D_HeaderOrMarker(lines[idx + 1]))
    => /\ raw' = raw
       /\ IF Strip(lines[idx + 1]) = <<>> THEN ps' = ps
          ELSE ps' = [ps EXCEPT !.current_chapter_title = Strip(lines[idx + 1]),
                                !.awaiting_title = FALSE]

\* Content is accumulated only after the title has been recorded.
ContentAfterTitle ==
    (doc = "D" /\ pc = "parse")
    => /\ ps.awaiting_title
            => /\ ps.current_chapter_num # None
               /\ ps.current_chapter_title = NoneT
               /\ ps.current_chapter_lines = <<>>
       /\ ps.current_chapter_lines # <<>> => ps.current_chapter_title # NoneT

\* The chapters that the loop returns have the titles told from the input.
TitlesFromInput ==
    (doc = "D" /\ pc = "fragments")
    => \A k \in 1..Len(raw.chapters) :
          raw.chapters[k].chapter_title =
              D_TitleExpected(lines,
                  D_FirstTextAfter(lines,
                      D_NthAccepted(D_AcceptedAt(ps.book1_start, ps.content_end), k),
                      ps.content_end))

\* C26: in parse_discourses, after a CHAPTER header the first following
\* line that is neither blank nor noise, when it comes before any header or
\* notes marker, is recorded as the title of the chapter and is no content
\* line; blank lines read while the title is awaited are dropped, and
\* content is accumulated only after the title is recorded.
C26_TitleAfterHeader ==
    /\ [][TitleTaken]_vars
    /\ []ContentAfterTitle
    /\ []TitlesFromInput

\* After 'CHAPTER II' come a blank line, the title and a line of content.
C26_Witness ==
    /\ doc = "D" /\ pc = "fragments"
    /\ Len(lines) = 6
    /\ lines[3] = D_LINE_CHAPTER_II
    /\ lines[4] = LINE_BLANK
    /\ lines[5] = D_LINE_TITLE
    /\ lines[6] = LINE_WORD
    /\ raw.chapters = <<[book_num |-> 1, chapter_num |-> 2,
                         chapter_title |-> D_LINE_TITLE,
                         lines |-> <<LINE_WORD>>]>>

-----------------------------------------------------------------------------
(* Properties: a BOOK header of Discourses (C27) *)

\* The chapter loop reads a BOOK header at lines[idx].
D_AtBookHeader ==
    /\ doc = "D" /\ pc = "parse" /\ idx < ps.content_end
    /\ ~NoiseLine(lines[idx + 1])
    /\ ~D_OpensNotes(Strip(lines[idx + 1]))
    /\ D_RE_BOOK_HEADER(Strip(lines[idx + 1])) # <<>>

\* The number of the last BOOK header among lines b..h-1 (counted from 0),
\* None when there is none.
RECURSIVE D_BookBefore(_, _, _)
D_BookBefore(ls, b, h) ==
    IF h <= b THEN None
    ELSE IF /\ ~NoiseLine(ls[h]) /\ ~D_OpensNotes(Strip(ls[h]))
            /\ D_RE_BOOK_HEADER(Strip(ls[h])) # <<>>
    THEN D_roman_to_int(D_RE_BOOK_HEADER(Strip(ls[h])))
    ELSE D_BookBefore(ls, b, h - 1)

\* The BOOK header closes the open chapter with the book that was current,
\* clears the chapter and the two flags, and sets the book.
BookHeaderCloses ==
    D_AtBookHeader
    => /\ raw'.chapters =
             IF ps.current_chapter_num # None
             THEN Append(raw.chapters,
                         [book_num |-> ps.current_book,
                          chapter_num |-> ps.current_chapter_num,
                          chapter_title |-> ps.current_chapter_title,
                          lines |-> ps.current_chapter_lines])
             ELSE raw.chapters
       /\ ps' = [ps EXCEPT !.current_book =
                               D_roman_to_int(D_RE_BOOK_HEADER(Strip(lines[idx + 1]))),
                           !.current_chapter_num = None,
                           !.current_chapter_title = NoneT,
                           !.current_chapter_lines = <<>>,
                           !.awaiting_title = FALSE,
                           !.in_notes = FALSE]

\* While no chapter is open a line that is no CHAPTER header is not
\* accumulated and no chapter is appended.
NothingKeptBetween ==
    (/\ doc = "D" /\ pc = "parse" /\ idx < ps.content_end
     /\ ps.current_chapter_num = None
     /\ D_RE_CHAPTER_HEADER(Strip(lines[idx + 1])) = <<>>)
    => /\ raw'.chapters = raw.chapters
       /\ ps'.current_chapter_num = None
       /\ ps'.current_chapter_lines = <<>>
       /\ ps'.current_chapter_title = NoneT

\* No chapter open: no title, no lines, no title awaited.
NoChapterNoLines ==
    (doc = "D" /\ pc = "parse" /\ ps.current_chapter_num = None)
    => /\ ps.current_chapter_lines = <<>>
       /\ ps.current_chapter_title = NoneT
       /\ ~ps.awaiting_title

\* Every chapter returned has the number of the last BOOK header before its
\* own header.
BookOfOpening ==
    (doc = "D" /\ pc = "fragments")
    => \A k \in 1..Len(raw.chapters) :
          raw.chapters[k].book_num =
              D_BookBefore(lines, ps.book1_start,
                  D_NthAccepted(D_AcceptedAt(ps.book1_start, ps.content_end), k))

\* C27: in parse_discourses a BOOK header met while a chapter is open
\* closes that chapter, emitted with the book number that was current when
\* it was opened, then clears the chapter number, title, lines and the
\* awaiting-title flag and ends the notes suppression; the lines after the
\* BOOK header are not accumulated until the next CHAPTER header.
C27_BookHeaderCloses ==
    /\ [][BookHeaderCloses /\ NothingKeptBetween]_vars
    /\ []NoChapterNoLines
    /\ []BookOfOpening

\* 'BOOK II' was read in the notes of an open chapter of book 1; the line
\* after it was dropped and the chapter after that belongs to book 2.
C27_Witness ==
    /\ doc = "D" /\ pc = "fragments"
    /\ Len(lines) = 8
    /\ lines[5] = D_LINE_NOTE
    /\ lines[6] = D_LINE_BOOK_II
    /\ lines[7] = LINE_WORD
    /\ lines[8] = D_LINE_CHAPTER_II
    /\ Len(raw.chapters) = 2
    /\ raw.chapters[1].book_num = 1 /\ raw.chapters[1].lines = <<>>
    /\ raw.chapters[2].book_num = 2 /\ raw.chapters[2].lines = <<>>

-----------------------------------------------------------------------------
(* Properties: the place of the header of letter 91 (C29) *)

\* parse_letters reads the unnumbered header of letter 91 at lines[idx].
L_AtLyonsLine ==
    /\ doc = "L" /\ pc = "parse"
    /\ idx < ps.regions[ps.r][2]
    /\ L_RE_LETTER_91_HEADER(Strip(lines[idx + 1]))

\* Letter 91 has been appended, or is the open letter.
L_Emitted91 ==
    \/ ps.current_letter_num = 91
    \/ \E k \in 1..Len(raw.raw_letters) : raw.raw_letters[k].number = 91

\* C29: in Letters the unnumbered header of letter 91 opens a section with
\* key 91 only when the letter accepted before it is letter 90 and letter 91
\* has not been emitted; elsewhere the line is plain content.
C29_LyonsOnlyAfter90 ==
    [][(L_AtLyonsLine /\ (ps.current_letter_num # 90 \/ L_Emitted91))
       => /\ raw'.raw_letters = raw.raw_letters
          /\ ps'.current_letter_num = ps.current_letter_num
          /\ ps'.current_lines =
                IF ps.current_letter_num # None
                THEN Append(ps.current_lines, lines[idx + 1])
                ELSE ps.current_lines]_vars

-----------------------------------------------------------------------------
(* Runs of the Letters script on inputs with entries of the table of      *)
(* contents and of the textual apparatus inside a letter region            *)

\* 'I. 7. x'
L_LINE_APPARATUS ==
    <<"I", ".", " ", "7", ".", " ", "x">>

\* 'II. CD 12  '
L_LINE_TOC_II ==
    <<"I", "I", ".", " ", "C", "D", " ", "1", "2", " ", " ">>

ContentsSeeds ==
    {<<L_LIT_VOLUME_HEADER>>, <<L_LIT_VOLUME_HEADER, L_LINE_HEADER_I, LINE_WORD>>}

ContentsCatalogue ==
    {L_LINE_TOC, L_LINE_TOC_II, L_LINE_APPARATUS, L_LINE_HEADER_II, LINE_WORD}

InitContents ==
    /\ PureIdle
    /\ doc = "L"
    /\ dry_run = FALSE
    /\ \E seed \in ContentsSeeds, body \in SeqsUpTo(ContentsCatalogue, MaxLines) :
            lines = seed \o body
    /\ pc = "start"
    /\ idx = 0
    /\ ps = NoLocals
    /\ raw = EmptyRaw
    /\ sections = <<>>
    /\ report = EmptyReport
    /\ written = FALSE
    /\ exit_status = None

NextContents ==
    \/ L_FindRegions
    \/ L_Line
    \/ L_RegionEnd
    \/ BuildSections
    \/ Validate
    \/ WriteOutput

SpecContents == InitContents /\ [][NextContents]_vars

-----------------------------------------------------------------------------
(* Properties: entries of the table of contents and of the apparatus (C28) *)

\* A Roman numeral, a period, whitespace: the number of characters, 0 when
\* the text does not start so.
NumeralPeriod(s) ==
    IF /\ RunLen(IsRomanIVXLC, s, 0) >= 1
       /\ HasAt(s, RunLen(IsRomanIVXLC, s, 0), <<".">>)
       /\ RunLen(IsSpace, s, RunLen(IsRomanIVXLC, s, 0) + 1) >= 1
    THEN RunLen(IsRomanIVXLC, s, 0) + 1
            + RunLen(IsSpace, s, RunLen(IsRomanIVXLC, s, 0) + 1)
    ELSE 0

\* Numeral, period, a text that starts with a capital, whitespace and a
\* trailing integer.
TocShape(s, p, d) ==
    /\ p > 0 /\ p < Len(s) /\ IsUpper(s[p + 1])
    /\ d >= 1
    /\ Len(s) - d >= p + 2
    /\ IsSpace(s[Len(s) - d])

\* Numeral, period, an integer and a period.
ApparatusShape(s, p) ==
    /\ p > 0
    /\ RunLen(IsDigit, s, p) >= 1
    /\ HasAt(s, p + RunLen(IsDigit, s, p), <<".">>)

TocOrApparatus(line) ==
    \/ TocShape(RStrip(Strip(line)), NumeralPeriod(Strip(line)),
                RunLenBack(IsDigit, RStrip(Strip(line))))
    \/ ApparatusShape(Strip(line), NumeralPeriod(Strip(line)))

\* A line of either shape is no header for is_letter_header.
EntriesAreNoHeaders ==
    doc = "L" =>
        \A i \in 1..Len(lines) :
            TocOrApparatus(lines[i])
            => /\ L_RE_TOC_ENTRY(Strip(lines[i])) \/ L_RE_APPARATUS_ENTRY(Strip(lines[i]))
               /\ ~L_is_letter_header(lines[i]).ok

\* parse_letters reads such a line: no letter is opened or closed, and the
\* line is content of the open letter.
EntryIsContent ==
    (/\ doc = "L" /\ pc = "parse" /\ idx < ps.regions[ps.r][2]
     /\ TocOrApparatus(lines[idx + 1]))
    => /\ raw' = raw
       /\ ps' = IF ps.current_letter_num # None
                THEN [ps EXCEPT !.current_lines = Append(@, lines[idx + 1])]
                ELSE ps

-----------------------------------------------------------------------------
(* The text normalizers on paragraphs: lines, blank lines, and lines that  *)
(* start with an annotation marker                                         *)

\* '[*b] d'
CLEAN_REF_FIRST ==
    <<"[", "*", "b", "]", " ", "d">>

\* '[1] c'
CLEAN_MARKER_FIRST ==
    <<"[", "1", "]", " ", "c">>

BreakCatalogue ==
    {LINE_WORD, LINE_BLANK, <<" ">>, D_LINE_CONTENT, LINE_CONTENT,
     CLEAN_REF_FIRST, CLEAN_MARKER_FIRST}

InitBreaks ==
    /\ fn \in CleanFns
    /\ arg \in SeqsUpTo(BreakCatalogue, MaxPieces)
    /\ res = [once |-> NoneT, twice |-> NoneT]
    /\ pc = "call"
    /\ RunIdle

SpecBreaks == InitBreaks /\ [][NextClean]_vars

-----------------------------------------------------------------------------
(* Properties: paragraph boundaries (C30) *)

\* The number of line breaks of a text.
Breaks(t) == Cardinality({n \in 1..Len(t) : t[n] = "\n"})

\* In the text out, c1 is followed by a line break and later by c2.
BrokenBetween(out, c1, c2) ==
    \E a \in 0..(Len(out) - Len(c1)), b \in 0..(Len(out) - Len(c2)) :
        /\ HasAt(out, a, c1) /\ HasAt(out, b, c2)
        /\ a + Len(c1) <= b
        /\ \E n \in (a + Len(c1) + 1)..b : out[n] = "\n"

\* Lines i and j of ls have content, and a blank line lies between them.
ParagraphsAt(f, ls, i, j) ==
    /\ i < j
    /\ clean(f, <<ls[i]>>) # <<>>
    /\ clean(f, <<ls[j]>>) # <<>>
    /\ \E k \in (i + 1)..(j - 1) : Strip(ls[k]) = <<>>

ParagraphsKept(f, ls, out) ==
    \A i, j \in 1..Len(ls) :
        ParagraphsAt(f, ls, i, j)
        => BrokenBetween(out, clean(f, <<ls[i]>>), clean(f, <<ls[j]>>))

\* The removal of the markers of Discourses leaves the line breaks.
RemovalKeepsBreaks(text) ==
    /\ Breaks(ReSub(D_RE_FOOTNOTE_REF, <<>>, text, 0, <<>>)) = Breaks(text)
    /\ Breaks(ReSub(D_RE_INLINE_PAGE, <<>>, text, 0, <<>>)) = Breaks(text)

\* C30: normalization preserves paragraph boundaries: when two non-empty
\* content lines of a raw section are separated by a blank line, their
\* content is separated by a line break in the normalized text, and the
\* removal of an inline annotation marker removes no line break
\* (Discourses clean_text, Letters clean_letter_text, Shortness
\* clean_chapter_text).
C30_ParagraphsPreserved ==
    (pc = "cleaned"
        /\ fn \in {"D_clean_text", "L_clean_letter_text", "S_clean_chapter_text"})
    => /\ ParagraphsKept(fn, arg, res.once)
       /\ fn = "D_clean_text" => RemovalKeepsBreaks(Join(<<"\n">>, arg))

-----------------------------------------------------------------------------
(* Properties: canonical numerals (C31) *)

\* The value of one numeral character.
RomanCharValue(c) ==
    IF c = "I" THEN 1 ELSE IF c = "V" THEN 5 ELSE IF c = "X" THEN 10
    ELSE IF c = "L" THEN 50 ELSE IF c = "C" THEN 100
    ELSE IF c = "D" THEN 500 ELSE 1000

\* The value of s in subtractive notation: a character counts negative
\* when a character of greater value follows it.  From position k on.
RECURSIVE StandardValueFrom(_, _)
StandardValueFrom(s, k) ==
    IF k > Len(s) THEN 0
    ELSE (IF k < Len(s) /\ RomanCharValue(s[k]) < RomanCharValue(s[k + 1])
          THEN 0 - RomanCharValue(s[k]) ELSE RomanCharValue(s[k]))
         + StandardValueFrom(s, k + 1)

StandardValue(s) == StandardValueFrom(s, 1)

\* The canonical numeral of a digit d with the characters one, five, ten
\* of its decimal place.
CanonicalDigit(d, one, five, ten) ==
    IF d = 0 THEN <<>>
    ELSE IF d <= 3 THEN [k \in 1..d |-> one]
    ELSE IF d = 4 THEN <<one, five>>
    ELSE IF d <= 8 THEN <<five>> \o [k \in 1..(d - 5) |-> one]
    ELSE <<one, ten>>

\* The canonical numeral of n, for n below 400.
CanonicalNumeral(n) ==
    CanonicalDigit(n \div 100, "C", "D", "M")
        \o CanonicalDigit((n \div 10) % 10, "X", "L", "C")
        \o CanonicalDigit(n % 10, "I", "V", "X")

\* C31: for the canonical Roman numeral s of every value in 1..124,
\* roman_to_int(s) is the value of s in subtractive notation and
\* int_to_roman(roman_to_int(s)) is s.
C31_CanonicalRoundTrip ==
    pc = "decoded"
    => /\ res.roman = CanonicalNumeral(arg)
       /\ StandardValue(res.roman) = arg
       /\ res.n = StandardValue(res.roman)
       /\ int_to_roman(fn, res.n) = res.roman

\* 'XCIV' has been decoded to 94 by the Discourses' roman_to_int.
C31_Witness ==
    /\ pc = "decoded" /\ fn = "D"
    /\ res.roman = <<"X", "C", "I", "V">>
    /\ res.n = 94
    /\ StandardValue(res.roman) = 94

-----------------------------------------------------------------------------
(* Runs of the Discourses script on fragments: numbers in any order, a    *)
(* number with a letter, and lines 'I'                                     *)

\* 'I'
D_LINE_ROMAN_I ==
    <<"I">>

\* '10a'
D_LINE_NUMBER_10A ==
    <<"1", "0", "a">>

FragmentSeeds ==
    {<<D_LIT_PREFACE, D_LIT_BOOK_I, D_LIT_FRAGMENTS>>}

FragmentCatalogue ==
    {D_LINE_ROMAN_I, D_LINE_NUMBER, D_LINE_NUMBER_10A, LINE_WORD, LINE_BLANK,
     D_LINE_TITLE, D_LINE_PAGE}

InitFragments ==
    /\ PureIdle
    /\ doc = "D"
    /\ dry_run = FALSE
    /\ \E seed \in FragmentSeeds, body \in SeqsUpTo(FragmentCatalogue, MaxLines) :
            lines = seed \o body
    /\ pc = "start"
    /\ idx = 0
    /\ ps = NoLocals
    /\ raw = EmptyRaw
    /\ sections = <<>>
    /\ report = EmptyReport
    /\ written = FALSE
    /\ exit_status = None

SpecFragments == InitFragments /\ [][NextMarked]_vars

-----------------------------------------------------------------------------
(* Properties: the headers of the fragments (C32) *)

\* The fragments with the open one of f closed.
FragmentsClosed(f) ==
    IF f.current_num # NoneT THEN Append(f.fragments, D_RawFragment(f))
    ELSE f.fragments

\* The line opens the fragment of number num: the open one is closed.
FragmentOpened(f, after, num) ==
    after = [fragments |-> FragmentsClosed(f), current_num |-> num,
             current_title |-> NoneT, current_lines |-> <<>>,
             awaiting_title |-> TRUE]

\* A line 'I' read with no fragment opened opens fragment '1'; a line that
\* matches the number pattern opens the fragment of its number, whatever
\* fragment is open.
FragmentHeaderAt(f, after, stripped) ==
    /\ (stripped = <<"I">> /\ f.current_num = NoneT)
          => FragmentOpened(f, after, <<"1">>)
    /\ D_RE_FRAGMENT_NUMBER(stripped) # <<>>
          => FragmentOpened(f, after, D_RE_FRAGMENT_NUMBER(stripped))

\* A line 'I' read while a fragment is open is content.
RomanOneIsContentAt(f, after, stripped) ==
    (stripped = <<"I">> /\ f.current_num # NoneT)
    => after = [f EXCEPT !.current_lines = Append(@, stripped),
                         !.awaiting_title = FALSE]

\* A line 'I' read while a fragment is open is its title when the title is
\* awaited, and content otherwise.
RomanOneIsTitleOrContentAt(f, after, stripped) ==
    (stripped = <<"I">> /\ f.current_num # NoneT)
    => after = IF f.awaiting_title
               THEN [f EXCEPT !.current_title = stripped,
                              !.awaiting_title = FALSE]
               ELSE [f EXCEPT !.current_lines = Append(@, stripped)]

FragmentLines(ls, b) ==
    IF b.start = None THEN {}
    ELSE {i \in b.start..(D_PartEnd(ls, b) - 1) : ~NoiseLine(ls[i + 1])}

\* C32: in parse_fragments a bare line 'I' opens fragment '1' only while
\* no fragment has been opened; once a fragment is open a line 'I' is
\* accumulated as content; every line that matches the number pattern
\* (digits with an optional letter) opens a new fragment, with no check of
\* order or range.
C32_RomanOneOnlyFirst ==
    (doc = "D" /\ pc = "manual")
    => /\ raw.fragments = D_parse_fragments(lines)
       /\ \A i \in FragmentLines(lines, D_PartScan("fragments", lines, 0, None)) :
             /\ FragmentHeaderAt(
                    D_FragLocalsAt(lines, D_PartScan("fragments", lines, 0, None).start, i, D_FragStart),
                    D_FragLocalsAt(lines, D_PartScan("fragments", lines, 0, None).start, i + 1, D_FragStart),
                    Strip(lines[i + 1]))
             /\ RomanOneIsContentAt(
                    D_FragLocalsAt(lines, D_PartScan("fragments", lines, 0, None).start, i, D_FragStart),
                    D_FragLocalsAt(lines, D_PartScan("fragments", lines, 0, None).start, i + 1, D_FragStart),
                    Strip(lines[i + 1]))

\* C32, amended: as C32, but a line 'I' read while a fragment is open and
\* its title is awaited is recorded as the title of that fragment; it is
\* accumulated as content once the title is no longer awaited.
C32_RomanOneTitleOrContent ==
    (doc = "D" /\ pc = "manual")
    => /\ raw.fragments = D_parse_fragments(lines)
       /\ \A i \in FragmentLines(lines, D_PartScan("fragments", lines, 0, None)) :
             /\ FragmentHeaderAt(
                    D_FragLocalsAt(lines, D_PartScan("fragments", lines, 0, None).start, i, D_FragStart),
                    D_FragLocalsAt(lines, D_PartScan("fragments", lines, 0, None).start, i + 1, D_FragStart),
                    Strip(lines[i + 1]))
             /\ RomanOneIsTitleOrContentAt(
                    D_FragLocalsAt(lines, D_PartScan("fragments", lines, 0, None).start, i, D_FragStart),
                    D_FragLocalsAt(lines, D_PartScan("fragments", lines, 0, None).start, i + 1, D_FragStart),
                    Strip(lines[i + 1]))

\* Three lines 'I': the first opens fragment '1', the second is its title,
\* the third its content.
C32_Witness ==
    /\ doc = "D" /\ pc = "manual"
    /\ Len(lines) = 6
    /\ raw.fragments = <<[number |-> <<"1">>, title |-> D_LINE_ROMAN_I,
                          lines |-> <<D_LINE_ROMAN_I>>]>>

-----------------------------------------------------------------------------
(* Runs of the Meditations script on books that end, or do not end, with  *)
(* a colophon                                                              *)

ColophonSeeds == {<<M_LIT_BOOK_ONE>>, <<M_LIT_BOOK_ONE, LINE_WORD>>}

ColophonCatalogue ==
    {LINE_WORD, LINE_CONTENT, LINE_BLANK, M_LIT_COLOPHON_1, M_LIT_COLOPHON_2,
     M_LINE_BOOK_TWO}

InitColophon ==
    /\ PureIdle
    /\ doc = "M"
    /\ dry_run = FALSE
    /\ \E seed \in ColophonSeeds, body \in SeqsUpTo(ColophonCatalogue, MaxLines + 1) :
            lines = seed \o body \o <<M_LIT_THE_END>>
    /\ pc = "start"
    /\ idx = 0
    /\ ps = NoLocals
    /\ raw = EmptyRaw
    /\ sections = <<>>
    /\ report = EmptyReport
    /\ written = FALSE
    /\ exit_status = None

NextColophon ==
    \/ M_StripHeaderFooter
    \/ M_Line
    \/ M_BooksEnd
    \/ BuildSections
    \/ Validate
    \/ WriteOutput

SpecColophon == InitColophon /\ [][NextColophon]_vars

-----------------------------------------------------------------------------
(* Properties: paragraphs and colophons of the Meditations (C33) *)

\* The paragraphs of ls: the runs of non-blank lines, each joined by line
\* breaks.  open is the paragraph being read.
RECURSIVE ParagraphsFrom(_, _, _)
ParagraphsFrom(ls, k, open) ==
    IF k > Len(ls)
    THEN (IF open = <<>> THEN <<>> ELSE <<Join(<<"\n">>, open)>>)
    ELSE IF Strip(ls[k]) = <<>>
    THEN (IF open = <<>> THEN <<>> ELSE <<Join(<<"\n">>, open)>>)
             \o ParagraphsFrom(ls, k + 1, <<>>)
    ELSE ParagraphsFrom(ls, k + 1, Append(open, Strip(ls[k])))

Paragraphs(ls) == ParagraphsFrom(ls, 1, <<>>)

\* The colophon of book 1 and of book 2; no other book has one.
ColophonOf(book_num) ==
    IF book_num = 1 THEN M_LIT_COLOPHON_1
    ELSE IF book_num = 2 THEN M_LIT_COLOPHON_2 ELSE NoneT

\* The sections a book is to have: its paragraphs, the colophon merged
\* into the paragraph before it.
SectionsExpected(book_num, P) ==
    IF Len(P) >= 2 /\ P[Len(P)] = ColophonOf(book_num)
    THEN [j \in 1..(Len(P) - 1) |->
            IF j < Len(P) - 1 THEN P[j]
            ELSE P[j] \o <<"\n", "\n">> \o P[Len(P)]]
    ELSE P

\* The book, number and text of the sections of the books from k on.
RECURSIVE M_EmittedExpected(_, _)
M_EmittedExpected(books, k) ==
    IF k > Len(books) THEN <<>>
    ELSE [j \in 1..Len(SectionsExpected(books[k][1], Paragraphs(books[k][2]))) |->
             [book |-> books[k][1], section |-> j,
              text |-> M_clean_text(
                  SectionsExpected(books[k][1], Paragraphs(books[k][2]))[j])]]
         \o M_EmittedExpected(books, k + 1)

\* C33: in split_book_into_sections, when the last paragraph of book 1
\* (of book 2) is the colophon 'Among the Quadi at the Granua.' ('This in
\* Carnuntum.') and the book has another paragraph, the colophon is merged
\* into the section before it and is no section of its own, so there is one
\* section less than paragraphs; in every other book and for every other
\* paragraph each paragraph is exactly one section, and the sections are
\* numbered consecutively from 1.
C33_ColophonMerged ==
    (doc = "M" /\ pc = "built")
    => /\ \A k \in 1..Len(raw.books) :
             M_split_book_into_sections(raw.books[k][1], raw.books[k][2])
                = SectionsExpected(raw.books[k][1], Paragraphs(raw.books[k][2]))
       /\ [j \in 1..Len(sections) |->
             [book |-> sections[j].book, section |-> sections[j].section,
              text |-> sections[j].text]]
            = M_EmittedExpected(raw.books, 1)

\* Book 1 has two paragraphs and the colophon: two sections, the second
\* with the colophon; book 2 keeps the same colophon as a section.
C33_Witness ==
    /\ doc = "M" /\ pc = "built"
    /\ Len(raw.books) = 1 /\ raw.books[1][1] = 1
    /\ Len(Paragraphs(raw.books[1][2])) = 3
    /\ Len(sections) = 2
    /\ sections[2].section = 2
    /\ sections[2].text = LINE_WORD \o <<"\n", "\n">> \o M_LIT_COLOPHON_1

-----------------------------------------------------------------------------
(* Runs of the Shortness script on headers with and without a space, and   *)
(* on numbers out of range                                                  *)

\* '1.d'
S_LINE_HEADER_1_NOSPACE ==
    <<"1", ".", "d">>

\* '4.You'
S_LINE_HEADER_4_NOSPACE ==
    <<"4", ".", "Y", "o", "u">>

\* '21. e'
S_LINE_HEADER_21 ==
    <<"2", "1", ".", " ", "e">>

\* '0.e'
S_LINE_HEADER_0 ==
    <<"0", ".", "e">>

AnomalySeeds == {<<S_LINE_HEADER_1_TEXT>>, <<LINE_WORD, S_LINE_HEADER_1_NOSPACE>>}

AnomalyCatalogue ==
    {S_LINE_HEADER_4_NOSPACE, S_LINE_HEADER_2, S_LINE_HEADER_21, S_LINE_HEADER_0,
     S_LINE_FOOTNOTES, LINE_WORD}

InitAnomaly ==
    /\ PureIdle
    /\ doc = "S"
    /\ dry_run = FALSE
    /\ \E seed \in AnomalySeeds, body \in SeqsUpTo(AnomalyCatalogue, MaxLines) :
            lines = seed \o body
    /\ pc = "start"
    /\ idx = 0
    /\ ps = NoLocals
    /\ raw = EmptyRaw
    /\ sections = <<>>
    /\ report = EmptyReport
    /\ written = FALSE
    /\ exit_status = None

NextAnomaly ==
    \/ S_FindContentStart
    \/ S_Line
    \/ S_ChaptersEnd
    \/ BuildSections
    \/ Validate
    \/ WriteOutput

SpecAnomaly == InitAnomaly /\ [][NextAnomaly]_vars

-----------------------------------------------------------------------------
(* Properties: the chapter headers of Shortness (C34) *)

\* The line begins with a number followed by a period.
NumberPeriod(stripped) ==
    /\ RunLen(IsDigit, stripped, 0) >= 1
    /\ Len(stripped) > RunLen(IsDigit, stripped, 0)
    /\ stripped[RunLen(IsDigit, stripped, 0) + 1] = "."

LeadingNumber(stripped) == DecToInt(SubSeq(stripped, 1, RunLen(IsDigit, stripped, 0)))

\* What follows the period, without the white space in front of it.
Remainder(stripped) ==
    LStrip(SubSeq(stripped, RunLen(IsDigit, stripped, 0) + 2, Len(stripped)))

\* The segmenter reads a line with a number in 1..20 and a period: the open
\* chapter is saved and the chapter of that number opened, with the
\* remainder of the line and no other line.
InRangeOpens ==
    (/\ doc = "S" /\ pc = "parse" /\ idx < Len(lines)
     /\ NumberPeriod(Strip(lines[idx + 1]))
     /\ LeadingNumber(Strip(lines[idx + 1])) \in 1..20)
    => /\ ps'.current_num = LeadingNumber(Strip(lines[idx + 1]))
       /\ ps'.current_first_line_text = Remainder(Strip(lines[idx + 1]))
       /\ ps'.current_lines = <<>>
       /\ ~ps'.in_footnotes
       /\ raw'.raw_chapters =
              IF ps.current_num # None
              THEN Append(raw.raw_chapters, S_RawChapter(ps))
              ELSE raw.raw_chapters

\* The segmenter reads a line with a number outside 1..20 and a period: no
\* chapter is opened or saved; the line is content of the open chapter, or
\* dropped in the footnotes.
OutOfRangeIsContent ==
    (/\ doc = "S" /\ pc = "parse" /\ idx < Len(lines)
     /\ NumberPeriod(Strip(lines[idx + 1]))
     /\ LeadingNumber(Strip(lines[idx + 1])) \notin 1..20)
    => /\ raw'.raw_chapters = raw.raw_chapters
       /\ ps'.current_num = ps.current_num
       /\ ps'.current_first_line_text = ps.current_first_line_text
       /\ ps'.in_footnotes = ps.in_footnotes
       /\ ps'.current_lines =
              IF ps.in_footnotes \/ ps.current_num = None THEN ps.current_lines
              ELSE Append(ps.current_lines, lines[idx + 1])

\* A line of the text as clean_chapter_text leaves it: no footnote
\* marker, single spaces.
S_CleanedLine(line) ==
    Strip(ReSub(MatchSpaces2, <<" ">>,
                ReSub(RE_FOOTNOTE_MARKER, <<>>, line, 0, <<>>), 0, <<>>))

\* The number and the text of each chapter read.
S_ChapterTexts ==
    [k \in 1..Len(raw.raw_chapters) |->
        [chapter |-> raw.raw_chapters[k].number,
         text |-> S_clean_chapter_text(raw.raw_chapters[k].first_line_text,
                                       raw.raw_chapters[k].lines)]]

\* The text of a chapter begins with the remainder of its header line, and
\* the sections are the chapters that have a text.
RemainderComesFirst ==
    (doc = "S" /\ pc = "built")
    => /\ \A k \in 1..Len(raw.raw_chapters) :
             StartsWith(S_ChapterTexts[k].text,
                        S_CleanedLine(raw.raw_chapters[k].first_line_text))
       /\ [j \in 1..Len(sections) |->
              [chapter |-> sections[j].chapter, text |-> sections[j].text]]
            = SelectSeq(S_ChapterTexts, LAMBDA c : c.text # <<>>)

\* C34: in Shortness a line that begins with a number in 1..20 and a period
\* opens a new chapter, with or without a space after the period ('N.Text'),
\* and the remainder of that line is the first line of the text of the
\* chapter; a line whose leading number is outside 1..20 never opens a
\* chapter: it is accumulated as content, or dropped inside the footnotes.
C34_NumberPeriodOpens ==
    [][InRangeOpens /\ OutOfRangeIsContent]_vars /\ []RemainderComesFirst

\* After '1. d', 'c' the line '4.You' has opened chapter 4, and '21. e' is
\* its content: the text of chapter 4 is 'You 21. e'.
C34_Witness ==
    /\ doc = "S" /\ pc = "built"
    /\ lines = <<S_LINE_HEADER_1_TEXT, LINE_WORD, S_LINE_HEADER_4_NOSPACE,
                 S_LINE_HEADER_21>>
    /\ Len(sections) = 2
    /\ sections[2].chapter = 4
    /\ sections[2].text = <<"Y", "o", "u", " ", "2", "1", ".", " ", "e">>

-----------------------------------------------------------------------------
(* Runs of the Discourses script on a Manual whose numbers come in any     *)
(* order                                                                    *)

\* '2'
D_LINE_NUMBER_2 ==
    <<"2">>

\* '3'
D_LINE_NUMBER_3 ==
    <<"3">>

\* '0'
D_LINE_NUMBER_0 ==
    <<"0">>

ManualSeeds == {<<D_LIT_PREFACE, D_LIT_BOOK_I, D_LIT_MANUAL>>}

ManualCatalogue ==
    {D_LINE_NUMBER, D_LINE_NUMBER_2, D_LINE_NUMBER_3, D_LINE_NUMBER_54,
     D_LINE_NUMBER_0, LINE_WORD}

InitManual ==
    /\ PureIdle
    /\ doc = "D"
    /\ dry_run = FALSE
    /\ \E seed \in ManualSeeds, body \in SeqsUpTo(ManualCatalogue, MaxLines + 1) :
            lines = seed \o body
    /\ pc = "start"
    /\ idx = 0
    /\ ps = NoLocals
    /\ raw = EmptyRaw
    /\ sections = <<>>
    /\ report = EmptyReport
    /\ written = FALSE
    /\ exit_status = None

SpecManual == InitManual /\ [][NextMarked]_vars

-----------------------------------------------------------------------------
(* Properties: the numbers of the Manual (C35) *)

\* The sections of the Manual among the sections built.
ManualBuilt == SelectSeq(sections, LAMBDA s : StartsWith(s.id, D_LIT_ID_MANUAL))

\* C35: for any input the section numbers that parse_manual emits are
\* strictly increasing in output order and lie in 1..53; hence the keys of
\* the sections of the Manual are unique.
C35_ManualNumbersIncrease ==
    (doc = "D" /\ pc \in {"parsed", "built", "validated", "done"})
    => /\ \A k \in 1..Len(raw.manual_sections) :
             raw.manual_sections[k].number \in 1..53
       /\ \A j, k \in 1..Len(raw.manual_sections) :
             j < k => raw.manual_sections[j].number < raw.manual_sections[k].number
       /\ \A j, k \in 1..Len(ManualBuilt) :
             j # k => /\ ManualBuilt[j].id # ManualBuilt[k].id
                      /\ ManualBuilt[j].chapter # ManualBuilt[k].chapter

\* The Manual '3', 'c', '1', '2' has been built: one section, number 3, whose
\* text holds the refused numbers.
C35_Witness ==
    /\ doc = "D" /\ pc = "built"
    /\ lines = <<D_LIT_PREFACE, D_LIT_BOOK_I, D_LIT_MANUAL>>
               \o <<D_LINE_NUMBER_3, LINE_WORD, D_LINE_NUMBER, D_LINE_NUMBER_2>>
    /\ Len(raw.manual_sections) = 1
    /\ Len(ManualBuilt) = 1
    /\ ManualBuilt[1].chapter = 3

-----------------------------------------------------------------------------
(* Properties: the book of a chapter of Discourses (C36) *)

\* While a chapter is open the current book is defined: it is the number of
\* the last BOOK header among the lines scanned.
OpenChapterHasBook ==
    (doc = "D" /\ pc = "parse" /\ ps.current_chapter_num # None)
    => /\ ps.current_book # None
       /\ ps.current_book = D_BookBefore(lines, ps.book1_start, idx)

\* Every chapter emitted so far has a book, the one of the last BOOK header
\* before the CHAPTER header that opened it.
EmittedChapterHasBook ==
    (doc = "D" /\ pc \in {"parse", "fragments", "manual", "parsed", "built"})
    => \A k \in 1..Len(raw.chapters) :
          /\ raw.chapters[k].book_num # None
          /\ raw.chapters[k].book_num >= 1
          /\ raw.chapters[k].book_num =
                D_BookBefore(lines, ps.book1_start,
                    D_NthAccepted(D_AcceptedAt(ps.book1_start, ps.content_end), k))

\* C36: in parse_discourses, whenever a chapter is open the current book
\* number is defined, and every emitted chapter carries the number of the
\* most recent BOOK header that precedes its CHAPTER header in the scanned
\* range; no chapter is ever emitted with a null book.
C36_ChapterHasBook == OpenChapterHasBook /\ EmittedChapterHasBook

\* Two chapters have been emitted, the first of book 1 and the second of
\* book 2.
C36_Witness ==
    /\ doc = "D" /\ pc = "fragments"
    /\ Len(raw.chapters) = 2
    /\ raw.chapters[1].book_num = 1
    /\ raw.chapters[2].book_num = 2

-----------------------------------------------------------------------------
(* Runs of the Letters script on several regions and the lines that end    *)
(* them                                                                     *)

\* 'Volume II.'
L_LINE_VOLUME_II ==
    L_LIT_VOLUME \o <<"I", "I", ".">>

\* The lines that end a region.
RegionMarkers ==
    {L_LINE_VOLUME_II, L_LIT_INDEX_NAMES, L_LIT_APPENDIX, L_LIT_PRINTED,
     L_LIT_DIGITAL, L_LIT_CONTENTS}

RegionSeeds ==
    {<<>>, <<L_LIT_VOLUME_HEADER>>, <<L_LIT_VOLUME_HEADER, L_LINE_HEADER_II, LINE_WORD>>}

RegionCatalogue(marker) == {L_LIT_VOLUME_HEADER, marker, L_LINE_HEADER_I, LINE_WORD}

InitRegions ==
    /\ PureIdle
    /\ doc = "L"
    /\ dry_run = FALSE
    /\ \E seed \in RegionSeeds, marker \in RegionMarkers :
         \E body \in SeqsUpTo(RegionCatalogue(marker), MaxLines + 1) :
            lines = seed \o body
    /\ pc = "start"
    /\ idx = 0
    /\ ps = NoLocals
    /\ raw = EmptyRaw
    /\ sections = <<>>
    /\ report = EmptyReport
    /\ written = FALSE
    /\ exit_status = None

SpecRegions == InitRegions /\ [][NextContents]_vars

-----------------------------------------------------------------------------
(* Properties: the regions of Letters (C37) *)

\* The line is one of the markers that end a region: a volume marker, an
\* index, an appendix, the printer line, the digital-edition line, a
\* contents header.
EndOfRegionMarker(line) ==
    LET s == Strip(line)
    IN  \/ /\ StartsWith(s, L_LIT_VOLUME) /\ Len(s) >= 9 /\ s[Len(s)] = "."
           /\ \A k \in 8..(Len(s) - 1) : s[k] \in {"I", "V", "X"}
        \/ StartsWith(s, L_LIT_INDEX_NAMES) \/ StartsWith(s, L_LIT_SUBJECT_INDEX)
        \/ StartsWith(s, L_LIT_APPENDIX)
        \/ StartsWith(s, L_LIT_PRINTED)
        \/ s = L_LIT_DIGITAL
        \/ StartsWith(s, L_LIT_CONTENTS)

\* The regions are within the input, each starts after a volume header, they
\* follow one another without a common line, and none holds a marker.
RegionsWellFormed(R) ==
    /\ \A r \in 1..Len(R) :
          /\ 1 <= R[r][1] /\ R[r][1] <= R[r][2] /\ R[r][2] <= Len(lines)
          /\ Strip(lines[R[r][1]]) = L_LIT_VOLUME_HEADER
          /\ \A i \in R[r][1]..(R[r][2] - 1) : ~EndOfRegionMarker(lines[i + 1])
    /\ \A r \in 1..(Len(R) - 1) : R[r][2] <= R[r + 1][1]
    /\ \A q, r \in 1..Len(R) :
          q # r => (R[q][1]..(R[q][2] - 1)) \cap (R[r][1]..(R[r][2] - 1)) = {}

\* The lines of a letter whose header is line h, read up to line e: those
\* that are no separator.
L_LinesBetween(h, e) ==
    SelectSeq(SubSeq(lines, h + 2, e), LAMBDA l : ~L_RE_SEPARATOR(Strip(l)))

\* The open letter holds lines of the current region only: those after its
\* header, which lies in that region.
OpenLetterInRegion ==
    (doc = "L" /\ pc = "parse")
    => /\ ps.regions[ps.r][1] <= idx
       /\ idx <= ps.regions[ps.r][2]
       /\ IF ps.current_letter_num = None
          THEN /\ ps.current_lines = <<>>
               /\ \A h \in ps.regions[ps.r][1]..(idx - 1) :
                     ~L_is_letter_header(lines[h + 1]).ok
          ELSE \E h \in ps.regions[ps.r][1]..(idx - 1) :
                  /\ L_is_letter_header(lines[h + 1]).ok
                  /\ \A g \in (h + 1)..(idx - 1) : ~L_is_letter_header(lines[g + 1]).ok
                  /\ ps.current_lines = L_LinesBetween(h, idx)

\* Where the letter with the header at line h ends: at the next header of
\* its region, or at the end of the region.
L_LetterEnd(R, h) ==
    LET r == CHOOSE q \in 1..Len(R) : R[q][1] <= h /\ h < R[q][2]
        next == {g \in (h + 1)..(R[r][2] - 1) : L_is_letter_header(lines[g + 1]).ok}
    IN  IF next = {} THEN R[r][2]
        ELSE CHOOSE g \in next : \A g2 \in next : g <= g2

\* Every letter returned holds the lines between its header and the end of
\* the letter in the region of the header.
LettersInRegion ==
    (doc = "L" /\ pc \in {"parsed", "built"})
    => /\ Len(raw.raw_letters) = Cardinality(L_AcceptedIn(ps.regions))
       /\ \A k \in 1..Len(raw.raw_letters) :
             raw.raw_letters[k].lines =
                 L_LinesBetween(D_NthAccepted(L_AcceptedIn(ps.regions), k),
                     L_LetterEnd(ps.regions,
                                 D_NthAccepted(L_AcceptedIn(ps.regions), k)))

RegionsOfInput ==
    (doc = "L" /\ pc \in {"parse", "parsed"})
    => /\ ps.regions = L_find_letter_regions(lines)
       /\ RegionsWellFormed(ps.regions)

\* C37: for any input the regions that find_letter_regions returns are
\* pairwise disjoint and listed in increasing line order, each with
\* start <= end <= number of lines, and no line inside a region matches an
\* end-of-region marker (volume marker, index, appendix, printer line,
\* digital-edition line, contents header); parse_letters never lets a letter
\* accumulate lines from a region other than the one that holds its header.
C37_RegionsDisjoint == RegionsOfInput /\ OpenLetterInRegion /\ LettersInRegion

\* Two regions, parted by the printer line, each with one letter of one
\* line.
C37_Witness ==
    /\ doc = "L" /\ pc = "parsed"
    /\ lines = <<L_LIT_VOLUME_HEADER, L_LINE_HEADER_II, LINE_WORD, L_LIT_PRINTED,
                 L_LIT_VOLUME_HEADER, L_LINE_HEADER_I, LINE_WORD>>
    /\ ps.regions = <<<<1, 3>>, <<5, 7>>>>
    /\ Len(raw.raw_letters) = 2
    /\ raw.raw_letters[1].lines = <<LINE_WORD>>
    /\ raw.raw_letters[2].lines = <<LINE_WORD>>

-----------------------------------------------------------------------------
(* The decoder on numerals of any shape: decode a text over I, V, X, L, C, *)
(* encode the value, and read a header that carries the text                *)

MaxNumeral == 4

NumeralChars == {"I", "V", "X", "L", "C"}

\* The non-empty texts over I, V, X, L, C up to the bound.
NumeralTexts == SeqsUpTo(NumeralChars, MaxNumeral) \ {<<>>}

InitNumeral ==
    /\ fn \in {"L", "D"}
    /\ arg \in NumeralTexts
    /\ res = [n |-> None, roman |-> NoneT, key |-> None]
    /\ pc = "call"
    /\ RunIdle

\* n = roman_to_int(s)
DecodeNumeral ==
    /\ pc = "call"
    /\ res' = [res EXCEPT !.n = roman_to_int(fn, arg)]
    /\ pc' = "decoded"
    /\ UNCHANGED <<fn, arg, doc, dry_run, lines, idx, ps, raw, sections,
                   report, written, exit_status>>

\* roman = int_to_roman(n)
EncodeValue ==
    /\ pc = "decoded"
    /\ res' = [res EXCEPT !.roman = int_to_roman(fn, res.n)]
    /\ pc' = "encoded"
    /\ UNCHANGED <<fn, arg, doc, dry_run, lines, idx, ps, raw, sections,
                   report, written, exit_status>>

\* The number a header with the numeral s is accepted with, None when it is
\* refused: is_letter_header on 's. AB' in Letters, the CHAPTER branch of
\* parse_discourses on 'CHAPTER s' in Discourses.
HeaderKey(f, s) ==
    IF f = "L"
    THEN L_is_letter_header(s \o <<".", " ", "A", "B">>).num
    ELSE IF D_RE_CHAPTER_HEADER(D_LIT_CHAPTER \o s) # <<>>
         THEN D_roman_to_int(D_RE_CHAPTER_HEADER(D_LIT_CHAPTER \o s))
         ELSE None

ReadHeader ==
    /\ pc = "encoded"
    /\ res' = [res EXCEPT !.key = HeaderKey(fn, arg)]
    /\ pc' = "accepted"
    /\ UNCHANGED <<fn, arg, doc, dry_run, lines, idx, ps, raw, sections,
                   report, written, exit_status>>

NextNumeral == DecodeNumeral \/ EncodeValue \/ ReadHeader

SpecNumeral == InitNumeral /\ [][NextNumeral]_vars

-----------------------------------------------------------------------------
(* Properties: numerals that are not canonical (C38) *)

\* C38: roman_to_int decodes only canonical numerals: for every non-empty
\* text s over I, V, X, L, C up to the bound, if roman_to_int(s) = n then
\* int_to_roman(n) = s, so a header with a malformed numeral ('IIII', 'VX',
\* 'IC') is never accepted with the key of another numeral.
C38_OnlyCanonicalDecoded ==
    /\ pc \in {"encoded", "accepted"} => res.roman = arg
    /\ (pc = "accepted" /\ res.key # None) => int_to_roman(fn, res.key) = arg

-----------------------------------------------------------------------------
(* The two scanning loops, one iteration at a time: the anchor search of   *)
(* parse_discourses and the region scan of find_letter_regions              *)

\* 'Book IV. Notes.'
D_LINE_NOTES_IV ==
    <<"B", "o", "o", "k", " ", "I", "V", ".", " ", "N", "o", "t", "e", "s", ".">>

ScanCatalogue(f) ==
    IF f = "D"
    THEN {D_LIT_PREFACE, D_LIT_BOOK_I, D_LINE_NOTES_IV, D_LIT_THE_DISCOURSES, LINE_WORD}
    ELSE {L_LIT_VOLUME_HEADER, L_LINE_VOLUME_II, L_LIT_PRINTED, LINE_WORD}

\* What the input starts with: nothing, or the two anchors of Discourses.
ScanSeeds(f) ==
    IF f = "D" THEN {<<>>, <<D_LIT_PREFACE, D_LIT_BOOK_I>>} ELSE {<<>>}

\* The locals of the two loops at their start.
ScanLocals ==
    [i |-> 0, j |-> 0, start |-> 0, regions |-> <<>>,
     st |-> [preface_start |-> None, book1_start |-> None, content_end |-> None],
     steps |-> 0]

InitScan ==
    /\ fn \in {"D", "L"}
    /\ \E seed \in ScanSeeds(fn), body \in SeqsUpTo(ScanCatalogue(fn), MaxLines) :
            arg = seed \o body
    /\ res = ScanLocals
    /\ pc = "scan"
    /\ RunIdle

\* One iteration of 'while i < len(lines)' of phase 1 of parse_discourses:
\* the anchors of line i, then the break at the notes of Book IV, or i += 1.
D_ScanStep ==
    /\ fn = "D" /\ pc = "scan"
    /\ res.i < Len(arg)
    /\ IF D_ScanStops(arg, res.i, Strip(arg[res.i + 1]))
       THEN /\ res' = [res EXCEPT
                          !.st = [D_ScanAnchors(res.st, res.i, Strip(arg[res.i + 1]))
                                     EXCEPT !.content_end = res.i],
                          !.steps = @ + 1]
            /\ pc' = "anchors"
       ELSE /\ res' = [res EXCEPT
                          !.st = D_ScanAnchors(res.st, res.i, Strip(arg[res.i + 1])),
                          !.i = @ + 1,
                          !.steps = @ + 1]
            /\ pc' = "scan"
    /\ UNCHANGED <<fn, arg, doc, dry_run, lines, idx, ps, raw, sections,
                   report, written, exit_status>>

\* The loop of phase 1 ends at the last line.
D_ScanEnd ==
    /\ fn = "D" /\ pc = "scan"
    /\ res.i >= Len(arg)
    /\ pc' = "anchors"
    /\ UNCHANGED <<fn, arg, res, doc, dry_run, lines, idx, ps, raw, sections,
                   report, written, exit_status>>

\* The tests that follow the loop: sys.exit(1) without PREFACE or BOOK I.
D_ScanAnchorsTested ==
    /\ fn = "D" /\ pc = "anchors"
    /\ pc' = IF res.st.preface_start = None \/ res.st.book1_start = None
             THEN "exited" ELSE "returned"
    /\ UNCHANGED <<fn, arg, res, doc, dry_run, lines, idx, ps, raw, sections,
                   report, written, exit_status>>

\* One iteration of 'while i < len(lines)' of find_letter_regions up to the
\* inner loop: at a volume header start = i + 1 and j = start, else i += 1.
L_OuterStep ==
    /\ fn = "L" /\ pc = "scan"
    /\ res.i < Len(arg)
    /\ IF L_RE_VOLUME_HEADER(Strip(arg[res.i + 1]))
       THEN /\ res' = [res EXCEPT !.start = res.i + 1, !.j = res.i + 1,
                                  !.steps = @ + 1]
            /\ pc' = "inner"
       ELSE /\ res' = [res EXCEPT !.i = @ + 1, !.steps = @ + 1]
            /\ pc' = "scan"
    /\ UNCHANGED <<fn, arg, doc, dry_run, lines, idx, ps, raw, sections,
                   report, written, exit_status>>

\* The breaks of the inner loop at line j.
L_InnerBreaks(ls, start, j) ==
    LET s == Strip(ls[j + 1])
    IN  \/ L_RE_VOLUME_MARKER(s)
        \/ L_RE_INDEX_HEADER(s)
        \/ L_RE_APPENDIX_HEADER(s)
        \/ L_RE_PRINTER(s)
        \/ L_RE_DIGITAL_EDITION(s)
        \/ L_RE_CONTENTS_HEADER(s)
        \/ (j > start /\ L_RE_VOLUME_HEADER(s))

\* One iteration of 'while j < len(lines)' that reaches j += 1.
L_InnerStep ==
    /\ fn = "L" /\ pc = "inner"
    /\ res.j < Len(arg)
    /\ ~L_InnerBreaks(arg, res.start, res.j)
    /\ res' = [res EXCEPT !.j = @ + 1, !.steps = @ + 1]
    /\ pc' = "inner"
    /\ UNCHANGED <<fn, arg, doc, dry_run, lines, idx, ps, raw, sections,
                   report, written, exit_status>>

\* The backward variant of 'i = j': the outer loop goes on where it was.
L_OuterNext_back(i, j) == i

\* i = j
L_OuterNext(i, j) == j

\* The inner loop is left, by a break or at the last line:
\* regions.append((start, j)); i = j.
L_InnerEnd ==
    /\ fn = "L" /\ pc = "inner"
    /\ IF res.j >= Len(arg) THEN TRUE ELSE L_InnerBreaks(arg, res.start, res.j)
    /\ res' = [res EXCEPT !.regions = Append(@, <<res.start, res.j>>),
                          !.i = L_OuterNext(res.i, res.j)]
    /\ pc' = "scan"
    /\ UNCHANGED <<fn, arg, doc, dry_run, lines, idx, ps, raw, sections,
                   report, written, exit_status>>

\* return regions
L_ScanReturn ==
    /\ fn = "L" /\ pc = "scan"
    /\ res.i >= Len(arg)
    /\ pc' = "returned"
    /\ UNCHANGED <<fn, arg, res, doc, dry_run, lines, idx, ps, raw, sections,
                   report, written, exit_status>>

NextScan ==
    \/ D_ScanStep
    \/ D_ScanEnd
    \/ D_ScanAnchorsTested
    \/ L_OuterStep
    \/ L_InnerStep
    \/ L_InnerEnd
    \/ L_ScanReturn

SpecScan == InitScan /\ [][NextScan]_vars

\* The scripts run on: a step that can be taken is taken.
SpecScanFair == SpecScan /\ WF_vars(NextScan)

-----------------------------------------------------------------------------
(* Properties: the scanning loops end (C39) *)

\* Every iteration moves the line index forward: i in the outer loops, j in
\* the inner one; when the inner loop is left, i is beyond where it was.
ScanAdvances ==
    /\ (pc = "scan" /\ pc' = "scan") => res'.i = res.i + 1
    /\ (pc = "scan" /\ pc' = "inner") => res'.j = res.i + 1
    /\ (pc = "inner" /\ pc' = "inner") => res'.j = res.j + 1
    /\ (pc = "inner" /\ pc' = "scan") => res'.i = res.j /\ res'.i > res.i

\* The iterations made so far are not more than the lines, and the indexes
\* are within the input.
ScanBounded ==
    pc \in {"scan", "inner", "anchors", "returned", "exited"}
    => /\ res.steps <= Len(arg)
       /\ res.i <= Len(arg) /\ res.j <= Len(arg)
       /\ pc = "inner" => res.i < res.j

\* What the loops return is what the segmenters start from.
ScanResult ==
    /\ (pc = "returned" /\ fn = "L") => res.regions = L_find_letter_regions(arg)
    /\ (pc \in {"anchors", "returned", "exited"} /\ fn = "D")
          => res.st = D_FindBounds(arg)
    /\ pc = "exited"
          => D_FindBounds(arg).preface_start = None
             \/ D_FindBounds(arg).book1_start = None

ScanEnded == pc \in {"returned", "exited"}

\* C39: every scanning loop ends on every finite input: the anchor search of
\* parse_discourses and the nested region scan of find_letter_regions move
\* their line index forward on every iteration, so each run reaches a fatal
\* exit or the end of the scan after a number of steps bounded by the number
\* of lines.
C39_ScansTerminate ==
    /\ [][ScanAdvances]_vars
    /\ [](ScanBounded /\ ScanResult)
    /\ <>ScanEnded

\* The region scan has returned two regions after one iteration per line.
C39_Witness ==
    /\ pc = "returned" /\ fn = "L"
    /\ Len(arg) = 3
    /\ Len(res.regions) = 2
    /\ res.steps = Len(arg)

=============================================================================
